---- MODULE Spec2Model ----
(***************************************************************************)
(* The FTS5 pending-terms hash table (fts5_hash.c): an in-memory map from  *)
(* term to doclist, filled by sqlite3Fts5HashWrite and read back by        *)
(* sqlite3Fts5HashQuery, the sqlite3Fts5HashScan* cursor and               *)
(* sqlite3Fts5HashIterate.                                                 *)
(*                                                                         *)
(* The heap is modelled explicitly: every Fts5HashEntry lives at an        *)
(* address, pointers (aSlot[], pHashNext, pScanNext, pScan) hold           *)
(* addresses, and an address that is not in DOMAIN mem has been freed.     *)
(* Integers of the model stay below 2^31, so rowids, columns and positions *)
(* are drawn from small non-negative sets (columns also from -1) and       *)
(* varints are at most 5 bytes long.                                       *)
(***************************************************************************)
EXTENDS Integers, Sequences, FiniteSets, TLC

VARIABLES
  tab,      \* tab[i]: the i-th accumulator (an Fts5Hash with its heap and *pnByte)
  written,  \* written[t]: the writes that succeeded under term t since the last clear/drain
  dropped,  \* total nData of the entries freed by clear and iterate so far
  budget,   \* calls of public operations still allowed (bounds the model)
  last      \* the last public operation and the status it returned

vars == <<tab, written, dropped, budget, last>>

(***************************************************************************)
(* Bounds of the model and constants of the program.                       *)
(***************************************************************************)
\* calls of public operations in one behaviour
MaxOps == 5
\* the slot array starts with 2^SlotBits slots (the program uses 2^10 = 1024;
\* the model scales it down so that resizes happen within MaxOps)
SlotBits == 1
\* slot-array exponent of the second accumulator of SpecPair
PairSlotBits == 3
\* calls of public operations after the pre-written ones in SpecGrow
GrowOps == 3

SizeofEntry == 48
MinAlloc    == 128
KeySlack    == 64
TailReserve == 22
NMergeSlot  == 32

NULL == 0
SQLITE_OK    == "SQLITE_OK"
SQLITE_NOMEM == "SQLITE_NOMEM"
SQLITE_ERROR == "SQLITE_ERROR"

\* char is a signed type on the builds modelled here (x86): p[i] sign-extends
CharIsSigned == TRUE

\* What the caller of Spec passes.  Terms: "a", "ab" (a is a strict prefix of
\* ab) and the single byte 0xCE
Terms    == { <<97>>, <<97, 98>>, <<206>> }
Rowids   == { 1, 3 }
Columns  == { 0 }
Poses    == { 0 }
\* What the caller of SpecDoc passes: few terms, many documents and positions
DocTerms   == { <<97>> }
DocRowids  == { 1, 3 }
DocColumns == { -1, 0, 2 }
DocPoses   == { 0, 130 }
\* scan prefixes; NoPrefix is the null pointer pTerm==0
NoPrefix == <<-1>>
Prefixes == { NoPrefix, <<>>, <<97>>, <<97, 98>>, <<97, 98, 99>>, <<206>> }
\* the prefixes the cursor of the model is opened with
ScanPrefixes == { NoPrefix, <<97>> }
\* SpecGrow starts after these writes under GrowTerm: rowid 1, seven columns, a
\* 5-byte position varint in each, which leave 13 bytes of tail space
GrowTerm == <<97, 98>>
GrowPrefill ==
  [ k \in 1..7 |-> [ rowid |-> 1,
                     col   |-> IF k = 1 THEN 0 ELSE 16382 + k,
                     pos   |-> 268435456 ] ]

\* SpecSort starts with an entry for each of these terms ("aa", "ac", "b"),
\* written in this order
SortPrefill == << <<97, 97>>, <<97, 99>>, <<98>> >>
SortTerms == { SortPrefill[k] : k \in 1..Len(SortPrefill) }

RECURSIVE Pow2(_)
Pow2(n) == IF n = 0 THEN 1 ELSE 2 * Pow2(n - 1)

Max(a, b) == IF a > b THEN a ELSE b

(***************************************************************************)
(* Varint codecs.                                                          *)
(***************************************************************************)
\* 0x80 | (u8)x
Or80(x) == IF (x % 256) >= 128 THEN x % 256 ELSE (x % 256) + 128

\* a faulty variant of Put4ByteVarint: the last byte is stored without the mask
\* 0x7F
Put4ByteVarint_NoMask(iVal) ==
  << Or80(iVal \div 2097152), Or80(iVal \div 16384), Or80(iVal \div 128), iVal % 256 >>

\* fts5Put4ByteVarint: the 4 bytes written for iVal
Put4ByteVarint(iVal) ==
  << Or80(iVal \div 2097152), Or80(iVal \div 16384), Or80(iVal \div 128), iVal % 128 >>

\* a faulty variant of Get4ByteVarint: the value 128 is reported to take one byte
Get4ByteVarint_ShortAt128(a) ==
  LET iRet == (a[1] % 128) * 2097152 + (a[2] % 128) * 16384 + (a[3] % 128) * 128 + a[4]
  IN  [ val |-> iRet,
        nVarint |-> IF iRet <= 128 THEN 1
                    ELSE IF iRet < 16384 THEN 2
                    ELSE IF iRet < 2097152 THEN 3 ELSE 4 ]

\* fts5Get4ByteVarint on the 4 bytes a: the value and *pnVarint
Get4ByteVarint(a) ==
  LET iRet == (a[1] % 128) * 2097152 + (a[2] % 128) * 16384 + (a[3] % 128) * 128 + a[4]
  IN  [ val |-> iRet,
        nVarint |-> IF iRet < 128 THEN 1
                    ELSE IF iRet < 16384 THEN 2
                    ELSE IF iRet < 2097152 THEN 3 ELSE 4 ]

\* the 7-bit groups of v, most significant first
RECURSIVE VarintGroups(_)
VarintGroups(v) ==
  IF v < 128 THEN <<v>> ELSE Append(VarintGroups(v \div 128), v % 128)

\* sqlite3PutVarint for 0 <= v < 2^31: high bit set on all but the final byte
PutVarint(v) ==
  LET g == VarintGroups(v)
  IN  [ i \in 1..Len(g) |-> IF i < Len(g) THEN g[i] + 128 ELSE g[i] ]

(***************************************************************************)
(* Rowids are i64.  A rowid below WideBase is written as itself; the value *)
(* WideBase + k (0 < k < 128) stands for the rowid k * 2^49, which is      *)
(* beyond the integers at hand.  Such values are handled as their eight    *)
(* 7-bit groups, most significant first; all are below 2^56, so the 9-byte *)
(* form of sqlite3PutVarint is not needed.                                 *)
(***************************************************************************)
WideBase == 1073741824

\* the eight 7-bit groups of the rowid written as r
Groups8(r) ==
  IF r >= WideBase
    THEN << r - WideBase, 0, 0, 0, 0, 0, 0, 0 >>
    ELSE [ i \in 1..(8 - Len(VarintGroups(r))) |-> 0 ] \o VarintGroups(r)

\* the groups i..8 of a - b for a >= b, c being the borrow into group i
RECURSIVE SubGroups(_, _, _, _)
SubGroups(a, b, i, c) ==
  IF i = 0 THEN <<>>
  ELSE LET d == a[i] - b[i] - c
       IN  SubGroups(a, b, i - 1, IF d < 0 THEN 1 ELSE 0)
           \o << IF d < 0 THEN d + 128 ELSE d >>

\* g without its leading zero groups (one group at least)
RECURSIVE Significant(_)
Significant(g) ==
  IF Len(g) > 1 /\ g[1] = 0 THEN Significant(Tail(g)) ELSE g

\* sqlite3PutVarint(iRowid - iPrev) for rowids written as above
RowidVarint(iRowid, iPrev) ==
  IF iRowid < WideBase
    THEN PutVarint(iRowid - iPrev)
    ELSE LET Put(g) == [ i \in 1..Len(g) |-> IF i < Len(g) THEN g[i] + 128 ELSE g[i] ]
         IN  Put(Significant(SubGroups(Groups8(iRowid), Groups8(iPrev), 8, 0)))

\* getVarint at 1-based index i of byte sequence a: the value and the bytes read
RECURSIVE GetVarintFrom(_, _, _, _)
GetVarintFrom(a, i, acc, n) ==
  IF a[i] >= 128
    THEN GetVarintFrom(a, i + 1, acc * 128 + (a[i] - 128), n + 1)
    ELSE [ val |-> acc * 128 + a[i], n |-> n + 1 ]

GetVarint(a, i) == GetVarintFrom(a, i, 0, 0)

(***************************************************************************)
(* fts5HashKey: h = (h << 3) ^ h ^ p[i] on an unsigned 32-bit h, kept here *)
(* as the pair <<high 16 bits, low 16 bits>>.                              *)
(***************************************************************************)
RECURSIVE Xor(_, _)
Xor(a, b) ==
  IF a = 0 THEN b
  ELSE IF b = 0 THEN a
  ELSE (((a % 2) + (b % 2)) % 2) + 2 * Xor(a \div 2, b \div 2)

\* p[i] converted to unsigned int
CharAsU32(b) ==
  IF CharIsSigned /\ b >= 128 THEN << 65535, 65280 + b >> ELSE << 0, b >>

HashStep(h, b) ==
  LET shHi == (h[1] * 8 + (h[2] \div 8192)) % 65536
      shLo == (h[2] * 8) % 65536
      c    == CharAsU32(b)
  IN  << Xor(Xor(shHi, h[1]), c[1]), Xor(Xor(shLo, h[2]), c[2]) >>

RECURSIVE HashFold(_, _, _)
HashFold(h, p, i) == IF i = 0 THEN h ELSE HashFold(HashStep(h, p[i]), p, i - 1)

\* h after the loop of fts5HashKey, for every key the callers of the model pass
KeyHash ==
  [ p \in Terms \cup DocTerms \cup SortTerms |-> HashFold(<<0, 13>>, p, Len(p)) ]

\* h % nSlot
fts5HashKey(nSlot, p) ==
  (((KeyHash[p][1] % nSlot) * (65536 % nSlot)) + KeyHash[p][2]) % nSlot

(***************************************************************************)
(* Entries and the heap.                                                   *)
(***************************************************************************)
\* offset of the first doclist byte: sizeof(Fts5HashEntry) + nKey + 1
Hdr(key) == SizeofEntry + Len(key) + 1

\* zKey[] as it lies in memory: the key and its nul terminator
KeyMem(e) == Append(e.zKey, 0)

\* strlen(p->zKey): the number of bytes before the first nul of zKey[]
strlen(e) ==
  (CHOOSE i \in 1..Len(KeyMem(e)) :
     KeyMem(e)[i] = 0 /\ \A j \in 1..(i - 1) : KeyMem(e)[j] # 0) - 1

\* memcmp(p->zKey, pTerm, nTerm)==0; pTerm holds no nul byte, so the comparison
\* is decided no later than at the key's terminator
MemcmpEq(e, pTerm) ==
  LET k == KeyMem(e)
  IN  \A i \in 1..Len(pTerm) : i <= Len(k) /\ k[i] = pTerm[i]

\* a faulty variant of KeyIs that leaves out the test of the terminator: a key
\* that starts with the token matches
KeyIs_PrefixOnly(e, pToken) == MemcmpEq(e, pToken)

\* memcmp(p->zKey, pToken, nToken)==0 && p->zKey[nToken]==0
KeyIs(e, pToken) == MemcmpEq(e, pToken) /\ KeyMem(e)[Len(pToken) + 1] = 0

\* the chain that starts at address a, following pHashNext
RECURSIVE ChainFrom(_, _)
ChainFrom(mem, a) ==
  IF a = NULL THEN <<>> ELSE <<a>> \o ChainFrom(mem, mem[a].pHashNext)

Chain(h, i) == ChainFrom(h.mem, h.aSlot[i])

\* for(p=pHash->aSlot[iHash]; p; p=p->pHashNext) if( key matches ) break;
Lookup(h, iHash, pToken) ==
  LET First(c) ==
        IF \E j \in 1..Len(c) : KeyIs(h.mem[c[j]], pToken)
          THEN c[CHOOSE j \in 1..Len(c) :
                   /\ KeyIs(h.mem[c[j]], pToken)
                   /\ \A k \in 1..(j - 1) : ~KeyIs(h.mem[c[k]], pToken)]
          ELSE NULL
  IN  First(Chain(h, iHash))

\* every address linked in a bucket chain, slot 0 first, each chain head first
RECURSIVE SlotOrder(_, _)
SlotOrder(h, i) ==
  IF i = h.nSlot THEN <<>> ELSE Chain(h, i) \o SlotOrder(h, i + 1)

\* every pointer value held by the table or by an entry
PointersHeld(h) ==
  {h.pScan} \cup { h.aSlot[i] : i \in DOMAIN h.aSlot }
  \cup { h.mem[a].pHashNext : a \in DOMAIN h.mem }
  \cup { h.mem[a].pScanNext : a \in DOMAIN h.mem }

\* pointers to freed memory
Dangling(h) == (PointersHeld(h) \ {NULL}) \ DOMAIN h.mem

\* the address a fresh allocation returns: a block never handed out that nothing
\* refers to, or (reuse) the block of a freed entry that something still refers to
FreshAddr(h) ==
  CHOOSE a \in 1..(Cardinality(DOMAIN h.mem) + Cardinality(Dangling(h)) + 1) :
    /\ a \notin DOMAIN h.mem /\ a \notin Dangling(h)
    /\ \A b \in 1..(a - 1) : b \in DOMAIN h.mem \/ b \in Dangling(h)

Malloc(h, reuse) ==
  IF reuse /\ Dangling(h) # {}
    THEN CHOOSE a \in Dangling(h) : \A b \in Dangling(h) : a <= b
    ELSE FreshAddr(h)

\* sqlite3Fts5HashNew
HashNew(bits) ==
  [ pnByte |-> 0,
    nEntry |-> 0,
    nSlot  |-> Pow2(bits),
    pScan  |-> NULL,
    aSlot  |-> [ i \in 0..(Pow2(bits) - 1) |-> NULL ],
    mem    |-> << >> ]

(***************************************************************************)
(* fts5HashResize and sqlite3Fts5HashWrite.                                *)
(***************************************************************************)
\* a faulty variant of Rehash: the slot of an entry is computed for the old
\* number of slots
RECURSIVE Rehash_OldCount(_, _, _, _)
Rehash_OldCount(mem, apNew, nNew, order) ==
  IF order = <<>> THEN [ mem |-> mem, aSlot |-> apNew ]
  ELSE LET p     == Head(order)
           iHash == fts5HashKey(nNew \div 2, mem[p].zKey)
       IN  Rehash_OldCount([mem EXCEPT ![p].pHashNext = apNew[iHash]],
                           [apNew EXCEPT ![iHash] = p], nNew, Tail(order))

\* the rehash loop: the entries of order, one by one, each pushed on the head
\* of the chain of its new slot
RECURSIVE Rehash(_, _, _, _)
Rehash(mem, apNew, nNew, order) ==
  IF order = <<>> THEN [ mem |-> mem, aSlot |-> apNew ]
  ELSE LET p     == Head(order)
           iHash == fts5HashKey(nNew, mem[p].zKey)
       IN  Rehash([mem EXCEPT ![p].pHashNext = apNew[iHash]],
                  [apNew EXCEPT ![iHash] = p], nNew, Tail(order))

\* a faulty variant of fts5HashResize: the slot array grows but the entries
\* stay on the chains they were on
fts5HashResize_NoRehash(h) ==
  [h EXCEPT !.nSlot = h.nSlot * 2,
            !.aSlot = [ i \in 0..(h.nSlot * 2 - 1) |->
                          IF i < h.nSlot THEN h.aSlot[i] ELSE NULL ]]

fts5HashResize(h) ==
  LET nNew == h.nSlot * 2
      r    == Rehash(h.mem, [ i \in 0..(nNew - 1) |-> NULL ], nNew, SlotOrder(h, 0))
  IN  [h EXCEPT !.nSlot = nNew, !.aSlot = r.aSlot, !.mem = r.mem]

\* a faulty variant of NewEntryAlloc: 16 bytes of slack and no minimum
NewEntryAlloc_Tight(pToken) == SizeofEntry + Len(pToken) + 1 + 16

\* nByte of a new entry: sizeof(Fts5HashEntry) + nToken + 1 + 64, at least 128
NewEntryAlloc(pToken) == Max(MinAlloc, SizeofEntry + Len(pToken) + 1 + KeySlack)

\* the entry as lines 217-225 leave it (pHashNext is set by the caller)
NewEntry(pToken, iRowid, next) ==
  LET v == RowidVarint(iRowid, 0)
  IN  [ pHashNext  |-> next,
        pScanNext  |-> NULL,
        nAlloc     |-> NewEntryAlloc(pToken),
        iSzPoslist |-> Hdr(pToken) + Len(v),
        nData      |-> Hdr(pToken) + Len(v) + 4,
        iCol       |-> 0,
        iPos       |-> 0,
        iRowid     |-> iRowid,
        zKey       |-> pToken,
        \* the 4 bytes of the size slot are reserved, not yet written
        buf        |-> v \o <<0, 0, 0, 0>> ]

\* a faulty variant of PutAt: the 4 bytes are stored one byte too early
PutAt_OneEarly(e, off, b) ==
  LET k == off - Hdr(e.zKey) - 1
  IN  [e EXCEPT !.buf = [ i \in 1..Len(e.buf) |->
                          IF i > k /\ i <= k + 4 THEN b[i - k] ELSE e.buf[i] ]]

\* store the 4 bytes b at offset off of the entry (pPtr[off..off+3])
PutAt(e, off, b) ==
  LET k == off - Hdr(e.zKey)
  IN  [e EXCEPT !.buf = [ i \in 1..Len(e.buf) |->
                          IF i > k /\ i <= k + 4 THEN b[i - k] ELSE e.buf[i] ]]

\* append bytes at pPtr[p->nData], advancing nData
AppendBytes(e, b) == [e EXCEPT !.buf = e.buf \o b, !.nData = e.nData + Len(b)]

\* a faulty variant of PatchSize: a size slot is written once, while it still
\* holds the bytes it was reserved with
PatchSize_Once(e) ==
  IF SubSeq(e.buf, e.iSzPoslist - Hdr(e.zKey) + 1, e.iSzPoslist - Hdr(e.zKey) + 4)
       = <<0, 0, 0, 0>>
    THEN PutAt(e, e.iSzPoslist, Put4ByteVarint(e.nData - e.iSzPoslist - 4))
    ELSE e

\* a faulty variant of PatchSize: the 4 bytes of the slot are counted in
PatchSize_CountsSlot(e) == PutAt(e, e.iSzPoslist, Put4ByteVarint(e.nData - e.iSzPoslist))

\* fts5Put4ByteVarint(&pPtr[p->iSzPoslist], p->nData - p->iSzPoslist - 4)
PatchSize(e) == PutAt(e, e.iSzPoslist, Put4ByteVarint(e.nData - e.iSzPoslist - 4))

\* a faulty variant of WriteRowid: the size slot of the new document is reserved
\* but iSzPoslist keeps pointing to the slot of the previous document
WriteRowid_KeepsSlot(e, iRowid) ==
  IF iRowid # e.iRowid
    THEN LET e1 == AppendBytes(PatchSize(e), PutVarint(iRowid - e.iRowid))
         IN  [AppendBytes(e1, <<0, 0, 0, 0>>) EXCEPT
                !.iCol = 0, !.iPos = 0, !.iRowid = iRowid]
    ELSE e

\* a faulty variant of WriteRowid: iCol and iPos are not reset for the new
\* document
WriteRowid_KeepsCursors(e, iRowid) ==
  IF iRowid # e.iRowid
    THEN LET e1 == AppendBytes(PatchSize(e), PutVarint(iRowid - e.iRowid))
             e2 == [e1 EXCEPT !.iSzPoslist = e1.nData]
         IN  [AppendBytes(e2, <<0, 0, 0, 0>>) EXCEPT !.iRowid = iRowid]
    ELSE e

\* lines 257-266: a new rowid closes the previous poslist and opens the next
WriteRowid(e, iRowid) ==
  IF iRowid # e.iRowid
    THEN LET e1 == AppendBytes(PatchSize(e), RowidVarint(iRowid, e.iRowid))
             e2 == [e1 EXCEPT !.iSzPoslist = e1.nData]
         IN  [AppendBytes(e2, <<0, 0, 0, 0>>) EXCEPT
                !.iCol = 0, !.iPos = 0, !.iRowid = iRowid]
    ELSE e

\* a faulty variant of WritePos: the position offset is appended without the
\* bias of 2
WritePos_NoBias(e, iCol, iPos) ==
  IF iCol >= 0
    THEN LET e1 == IF iCol # e.iCol
                     THEN [AppendBytes(e, <<1>> \o PutVarint(iCol)) EXCEPT
                             !.iCol = iCol, !.iPos = 0]
                     ELSE e
         IN  [AppendBytes(e1, PutVarint(iPos - e1.iPos)) EXCEPT !.iPos = iPos]
    ELSE e

\* a faulty variant of WritePos: a negative column skips the column marker but
\* not the position offset
WritePos_DeletionHasPosition(e, iCol, iPos) ==
  IF iCol >= 0
    THEN LET e1 == IF iCol # e.iCol
                     THEN [AppendBytes(e, <<1>> \o PutVarint(iCol)) EXCEPT
                             !.iCol = iCol, !.iPos = 0]
                     ELSE e
         IN  [AppendBytes(e1, PutVarint(iPos - e1.iPos + 2)) EXCEPT !.iPos = iPos]
    ELSE [AppendBytes(e, PutVarint(iPos - e.iPos + 2)) EXCEPT !.iPos = iPos]

\* a faulty variant of WritePos: the column marker is appended with every
\* position, also when the column has not changed
WritePos_AlwaysMarks(e, iCol, iPos) ==
  IF iCol >= 0
    THEN LET e1 == [AppendBytes(e, <<1>> \o PutVarint(iCol)) EXCEPT
                      !.iCol = iCol,
                      !.iPos = IF iCol # e.iCol THEN 0 ELSE e.iPos]
         IN  [AppendBytes(e1, PutVarint(iPos - e1.iPos + 2)) EXCEPT !.iPos = iPos]
    ELSE e

\* lines 268-281: the column marker, if the column changed, and the position
WritePos(e, iCol, iPos) ==
  IF iCol >= 0
    THEN LET e1 == IF iCol # e.iCol
                     THEN [AppendBytes(e, <<1>> \o PutVarint(iCol)) EXCEPT
                             !.iCol = iCol, !.iPos = 0]
                     ELSE e
         IN  [AppendBytes(e1, PutVarint(iPos - e1.iPos + 2)) EXCEPT !.iPos = iPos]
    ELSE e

\* a faulty variant of Relink: the new address is stored in the slot itself, as
\* if the entry were always the first of its chain
Relink_AtHead(h, iHash, old, new) ==
  IF old = new THEN h ELSE [h EXCEPT !.aSlot[iHash] = new]

\* replace pointer old by new wherever the chain of slot iHash refers to it
\* (for(pp=&pHash->aSlot[iHash]; *pp!=p; pp=&(*pp)->pHashNext); *pp = pNew;)
Relink(h, iHash, old, new) ==
  IF old = new THEN h
  ELSE IF h.aSlot[iHash] = old
    THEN [h EXCEPT !.aSlot[iHash] = new]
    ELSE LET Fix(a) == [h EXCEPT !.mem[a].pHashNext = new]
         IN  Fix(CHOOSE a \in DOMAIN h.mem : h.mem[a].pHashNext = old)

\* sqlite3_realloc(p, nNew) succeeded: the block keeps its address or moves
\* (env.mv), the old address is freed when it moves, and the chain is re-linked
GrowEntry(h, iHash, p, env) ==
  LET Moved(e, rest, pNew) ==
        [ h |-> Relink([h EXCEPT !.mem = (pNew :> e) @@ rest], iHash, p, pNew),
          p |-> pNew ]
      Freed(e, rest) ==
        IF env.mv
          THEN Moved(e, rest, Malloc([h EXCEPT !.mem = rest], env.reuse))
          ELSE [ h |-> [h EXCEPT !.mem[p] = e], p |-> p ]
  IN  Freed([h.mem[p] EXCEPT !.nAlloc = h.mem[p].nAlloc * 2],
            [ a \in DOMAIN h.mem \ {p} |-> h.mem[a] ])

\* the allocation sites of sqlite3Fts5HashWrite that can fail
WriteFailSites == { "none", "resize", "entry", "realloc" }

WriteResult(h, rc, site) == [ h |-> h, rc |-> rc, site |-> site ]

\* a faulty variant of WriteAppend: only the bytes this call appends are added
\* to *pHash->pnByte, so the header and key of a new entry are not counted
WriteAppend_DeltaOnly(h, p, nIncr0, iRowid, iCol, iPos) ==
  LET Store(e) ==
        [h EXCEPT !.mem[p] = e,
                  !.pnByte = h.pnByte + (e.nData - h.mem[p].nData)]
  IN  WriteResult(Store(WritePos(WriteRowid(h.mem[p], iRowid), iCol, iPos)),
                  SQLITE_OK, "none")

\* a faulty variant of WriteAppend: the 4 bytes of the size slot that a rowid
\* change writes in place are counted as well
WriteAppend_CountsPatch(h, p, nIncr0, iRowid, iCol, iPos) ==
  LET Store(e) ==
        [h EXCEPT !.mem[p] = e,
                  !.pnByte = h.pnByte + ((nIncr0 - h.mem[p].nData) + e.nData)
                               + (IF iRowid # h.mem[p].iRowid THEN 4 ELSE 0)]
  IN  WriteResult(Store(WritePos(WriteRowid(h.mem[p], iRowid), iCol, iPos)),
                  SQLITE_OK, "none")

\* lines 252-285: append to entry p and add nIncr to *pHash->pnByte; nIncr0 is
\* nIncr as line 229 left it
WriteAppend(h, p, nIncr0, iRowid, iCol, iPos) ==
  LET Store(e) ==
        [h EXCEPT !.mem[p] = e,
                  !.pnByte = h.pnByte + ((nIncr0 - h.mem[p].nData) + e.nData)]
  IN  WriteResult(Store(WritePos(WriteRowid(h.mem[p], iRowid), iCol, iPos)),
                  SQLITE_OK, "none")

\* lines 241-251: make room for the worst-case append
WriteReserve(h, iHash, p, nIncr0, iRowid, iCol, iPos, env) ==
  IF (h.mem[p].nAlloc - h.mem[p].nData) < TailReserve
    THEN IF env.fail = "realloc"
           THEN WriteResult(h, SQLITE_NOMEM, "realloc")
           ELSE LET Go(g) == WriteAppend(g.h, g.p, nIncr0, iRowid, iCol, iPos)
                IN  Go(GrowEntry(h, iHash, p, env))
    ELSE WriteAppend(h, p, nIncr0, iRowid, iCol, iPos)

\* lines 215-230: allocate the entry at address p and push it on its chain
WriteCreate(h, iHash, p, iRowid, iCol, iPos, pToken, env) ==
  LET Go(e) ==
        WriteReserve([h EXCEPT !.mem = (p :> e) @@ h.mem,
                               !.aSlot[iHash] = p,
                               !.nEntry = h.nEntry + 1],
                     iHash, p, e.nData, iRowid, iCol, iPos, env)
  IN  Go(NewEntry(pToken, iRowid, h.aSlot[iHash]))

\* a faulty variant of WriteNew: nEntry is counted before the allocation
WriteNew_CountsFirst(h, iRowid, iCol, iPos, pToken, env) ==
  IF env.fail = "entry"
    THEN WriteResult([h EXCEPT !.nEntry = h.nEntry + 1], SQLITE_NOMEM, "entry")
    ELSE WriteCreate(h, fts5HashKey(h.nSlot, pToken), Malloc(h, env.reuse),
                     iRowid, iCol, iPos, pToken, env)

\* lines 205-230, after the table was resized if it had to be
WriteNew(h, iRowid, iCol, iPos, pToken, env) ==
  IF env.fail = "entry"
    THEN WriteResult(h, SQLITE_NOMEM, "entry")
    ELSE WriteCreate(h, fts5HashKey(h.nSlot, pToken), Malloc(h, env.reuse),
                     iRowid, iCol, iPos, pToken, env)

\* a faulty variant of WriteFound: the slot array is resized only once nEntry*2
\* exceeds nSlot
WriteFound_ResizesLate(h, iHash, p, iRowid, iCol, iPos, pToken, env) ==
  IF p = NULL
    THEN IF (h.nEntry * 2) > h.nSlot
           THEN IF env.fail = "resize"
                  THEN WriteResult(h, SQLITE_NOMEM, "resize")
                  ELSE WriteNew(fts5HashResize(h), iRowid, iCol, iPos, pToken, env)
           ELSE WriteNew(h, iRowid, iCol, iPos, pToken, env)
    ELSE WriteReserve(h, iHash, p, 0, iRowid, iCol, iPos, env)

\* the rest of sqlite3Fts5HashWrite once the chain walk has ended on p
WriteFound(h, iHash, p, iRowid, iCol, iPos, pToken, env) ==
  IF p = NULL
    THEN IF (h.nEntry * 2) >= h.nSlot
           THEN IF env.fail = "resize"
                  THEN WriteResult(h, SQLITE_NOMEM, "resize")
                  ELSE WriteNew(fts5HashResize(h), iRowid, iCol, iPos, pToken, env)
           ELSE WriteNew(h, iRowid, iCol, iPos, pToken, env)
    ELSE WriteReserve(h, iHash, p, 0, iRowid, iCol, iPos, env)

\* sqlite3Fts5HashWrite: the table afterwards, the status, and the failing site
sqlite3Fts5HashWrite(h, iRowid, iCol, iPos, pToken, env) ==
  LET Go(iHash) ==
        WriteFound(h, iHash, Lookup(h, iHash, pToken), iRowid, iCol, iPos, pToken, env)
  IN  Go(fts5HashKey(h.nSlot, pToken))

(***************************************************************************)
(* fts5HashEntryMerge and fts5HashEntrySort.  A sorted list is kept as the *)
(* sequence of the addresses it links through pScanNext; the links are     *)
(* written back to the heap when the sort returns.                         *)
(***************************************************************************)
\* p->zKey[i], i counted from 0 as in the code
KeyByte(e, i) == KeyMem(e)[i + 1]

\* while( p1->zKey[i]==p2->zKey[i] ) i++;   (distinct keys differ no later
\* than at the terminator of the shorter one)
FirstDiff(e1, e2) ==
  LET n == IF Len(e1.zKey) < Len(e2.zKey) THEN Len(e1.zKey) ELSE Len(e2.zKey)
  IN  CHOOSE i \in 0..n :
        /\ KeyByte(e1, i) # KeyByte(e2, i)
        /\ \A j \in 0..(i - 1) : KeyByte(e1, j) = KeyByte(e2, j)

\* a faulty variant of P2Smaller: the bytes are compared as signed chars
P2Smaller_Signed(e1, e2) ==
  LET S(b) == IF b >= 128 THEN b - 256 ELSE b
      i == FirstDiff(e1, e2)
  IN  S(KeyByte(e1, i)) > S(KeyByte(e2, i))

\* ((u8)p1->zKey[i]) > ((u8)p2->zKey[i]): p2 is smaller
P2Smaller(e1, e2) ==
  LET i == FirstDiff(e1, e2) IN KeyByte(e1, i) > KeyByte(e2, i)

RECURSIVE fts5HashEntryMerge(_, _, _)
fts5HashEntryMerge(mem, pLeft, pRight) ==
  IF pLeft = <<>> THEN pRight
  ELSE IF pRight = <<>> THEN pLeft
  ELSE IF P2Smaller(mem[Head(pLeft)], mem[Head(pRight)])
    THEN <<Head(pRight)>> \o fts5HashEntryMerge(mem, pLeft, Tail(pRight))
    ELSE <<Head(pLeft)>> \o fts5HashEntryMerge(mem, Tail(pLeft), pRight)

\* a faulty variant of PrefixMatch: only the first byte of the prefix is compared
PrefixMatch_FirstByte(e, pTerm) ==
  pTerm = NoPrefix \/ Len(pTerm) = 0 \/ KeyByte(e, 0) = pTerm[1]

\* pTerm==0 || 0==memcmp(pIter->zKey, pTerm, nTerm)
PrefixMatch(e, pTerm) == pTerm = NoPrefix \/ MemcmpEq(e, pTerm)

\* a faulty variant of Absorb: the list merged with slot i is put back in slot i
\* and is not carried to the next slot
RECURSIVE Absorb_NoCarry(_, _, _, _)
Absorb_NoCarry(mem, ap, pEntry, i) ==
  IF ap[i] = <<>> THEN [ap EXCEPT ![i] = pEntry]
  ELSE [ap EXCEPT ![i] = fts5HashEntryMerge(mem, pEntry, ap[i])]

\* for(i=0; ap[i]; i++){ pEntry = merge(pEntry, ap[i]); ap[i] = 0; }  ap[i] = pEntry;
RECURSIVE Absorb(_, _, _, _)
Absorb(mem, ap, pEntry, i) ==
  IF ap[i] = <<>> THEN [ap EXCEPT ![i] = pEntry]
  ELSE Absorb(mem, [ap EXCEPT ![i] = <<>>], fts5HashEntryMerge(mem, pEntry, ap[i]), i + 1)

\* the merge slots after the entries of order (the bucket walk) have been visited
RECURSIVE SortBuild(_, _, _, _)
SortBuild(mem, ap, order, pTerm) ==
  IF order = <<>> THEN ap
  ELSE SortBuild(mem,
                 IF PrefixMatch(mem[Head(order)], pTerm)
                   THEN Absorb(mem, ap, <<Head(order)>>, 0)
                   ELSE ap,
                 Tail(order), pTerm)

\* pList = 0; for(i=0; i<nMergeSlot; i++) pList = merge(pList, ap[i]);
RECURSIVE SortFold(_, _, _, _)
SortFold(mem, ap, i, pList) ==
  IF i = NMergeSlot THEN pList
  ELSE SortFold(mem, ap, i + 1, fts5HashEntryMerge(mem, pList, ap[i]))

\* a faulty variant of LinkList: the last entry of the sorted list is linked
\* back to the first
LinkList_Cyclic(mem, pList) ==
  [ a \in DOMAIN mem |->
      IF \E j \in 1..Len(pList) : pList[j] = a
        THEN LET j == CHOOSE j \in 1..Len(pList) : pList[j] = a
             IN  [mem[a] EXCEPT !.pScanNext =
                    IF j < Len(pList) THEN pList[j + 1] ELSE Head(pList)]
        ELSE mem[a] ]

\* the pScanNext links of the sorted list
LinkList(mem, pList) ==
  [ a \in DOMAIN mem |->
      IF \E j \in 1..Len(pList) : pList[j] = a
        THEN LET j == CHOOSE j \in 1..Len(pList) : pList[j] = a
             IN  [mem[a] EXCEPT !.pScanNext =
                    IF j < Len(pList) THEN pList[j + 1] ELSE NULL]
        ELSE mem[a] ]

\* a faulty variant of fts5HashEntrySort: nEntry is set to 0 also when the
\* allocation of the merge slots fails
fts5HashEntrySort_OomZeroesCount(h, pTerm, oom) ==
  IF oom
    THEN [ h |-> [h EXCEPT !.nEntry = 0], rc |-> SQLITE_NOMEM,
           pSorted |-> NULL, list |-> <<>> ]
    ELSE LET Done(pList) ==
               [ h       |-> [h EXCEPT !.mem = LinkList(h.mem, pList), !.nEntry = 0],
                 rc      |-> SQLITE_OK,
                 pSorted |-> IF pList = <<>> THEN NULL ELSE Head(pList),
                 list    |-> pList ]
         IN  Done(SortFold(h.mem,
                           SortBuild(h.mem, [ i \in 0..(NMergeSlot - 1) |-> <<>> ],
                                     SlotOrder(h, 0), pTerm),
                           0, <<>>))

\* fts5HashEntrySort: the table afterwards, the status and *ppSorted (with the
\* list it heads); oom: the allocation of the merge slots fails
fts5HashEntrySort(h, pTerm, oom) ==
  IF oom
    THEN [ h |-> h, rc |-> SQLITE_NOMEM, pSorted |-> NULL, list |-> <<>> ]
    ELSE LET Done(pList) ==
               [ h       |-> [h EXCEPT !.mem = LinkList(h.mem, pList), !.nEntry = 0],
                 rc      |-> SQLITE_OK,
                 pSorted |-> IF pList = <<>> THEN NULL ELSE Head(pList),
                 list    |-> pList ]
         IN  Done(SortFold(h.mem,
                           SortBuild(h.mem, [ i \in 0..(NMergeSlot - 1) |-> <<>> ],
                                     SlotOrder(h, 0), pTerm),
                           0, <<>>))

(***************************************************************************)
(* sqlite3Fts5HashIterate.  The sink is the sequence of calls it receives; *)
(* its failAt-th call (if any) returns an error status.                    *)
(***************************************************************************)
\* a faulty variant of SinkCall: the callback is issued whatever rc is, and its
\* status replaces rc
SinkCall_Unguarded(st, cb, failAt) ==
  [ calls |-> Append(st.calls, cb),
    rc    |-> IF Len(st.calls) + 1 = failAt THEN SQLITE_ERROR ELSE SQLITE_OK ]

\* one guarded callback: nothing is called once rc is not SQLITE_OK
SinkCall(st, cb, failAt) ==
  IF st.rc # SQLITE_OK THEN st
  ELSE [ calls |-> Append(st.calls, cb),
         rc    |-> IF Len(st.calls) + 1 = failAt THEN SQLITE_ERROR ELSE SQLITE_OK ]

\* pPtr[off .. off+n-1]
BytesAt(e, off, n) == SubSeq(e.buf, off - Hdr(e.zKey) + 1, off - Hdr(e.zKey) + n)

\* a faulty variant of IterDocs: xEntry is handed the stored delta instead of
\* the running sum iRowid
RECURSIVE IterDocs_DeltaRowid(_, _, _, _, _)
IterDocs_DeltaRowid(e, iOff, iRowid, st, failAt) ==
  IF st.rc # SQLITE_OK \/ ~(iOff < e.nData) THEN st
  ELSE LET Emit(iOff2, rowid, sz) ==
             IterDocs_DeltaRowid(e, iOff2 + sz.val, rowid,
                      SinkCall(st, [ cb |-> "xEntry", iRowid |-> rowid - iRowid,
                                     data |-> BytesAt(e, iOff2 - sz.nVarint,
                                                      sz.val + sz.nVarint),
                                     n |-> sz.val + sz.nVarint ], failAt),
                      failAt)
           Rowid(d) ==
             Emit(iOff + d.n + 4, iRowid + d.val,
                  Get4ByteVarint(BytesAt(e, iOff + d.n, 4)))
       IN  Rowid(GetVarint(e.buf, iOff - Hdr(e.zKey) + 1))

\* a faulty variant of IterDocs: xEntry is handed all 4 bytes of the size slot
RECURSIVE IterDocs_FullSlot(_, _, _, _, _)
IterDocs_FullSlot(e, iOff, iRowid, st, failAt) ==
  IF st.rc # SQLITE_OK \/ ~(iOff < e.nData) THEN st
  ELSE LET Emit(iOff2, rowid, sz) ==
             IterDocs_FullSlot(e, iOff2 + sz.val, rowid,
                      SinkCall(st, [ cb |-> "xEntry", iRowid |-> rowid,
                                     data |-> BytesAt(e, iOff2 - 4, sz.val + 4),
                                     n |-> sz.val + 4 ], failAt),
                      failAt)
           Rowid(d) ==
             Emit(iOff + d.n + 4, iRowid + d.val,
                  Get4ByteVarint(BytesAt(e, iOff + d.n, 4)))
       IN  Rowid(GetVarint(e.buf, iOff - Hdr(e.zKey) + 1))

\* while( rc==SQLITE_OK && iOff<pList->nData ){ ... xEntry ... }
RECURSIVE IterDocs(_, _, _, _, _)
IterDocs(e, iOff, iRowid, st, failAt) ==
  IF st.rc # SQLITE_OK \/ ~(iOff < e.nData) THEN st
  ELSE LET Emit(iOff2, rowid, sz) ==
             IterDocs(e, iOff2 + sz.val, rowid,
                      SinkCall(st, [ cb |-> "xEntry", iRowid |-> rowid,
                                     data |-> BytesAt(e, iOff2 - sz.nVarint,
                                                      sz.val + sz.nVarint),
                                     n |-> sz.val + sz.nVarint ], failAt),
                      failAt)
           Rowid(d) ==
             Emit(iOff + d.n + 4, iRowid + d.val,
                  Get4ByteVarint(BytesAt(e, iOff + d.n, 4)))
       IN  Rowid(GetVarint(e.buf, iOff - Hdr(e.zKey) + 1))

\* the body of while( pList ) for one entry, lines 395-423
IterEntry(e0, st, failAt) ==
  IF st.rc # SQLITE_OK THEN st
  ELSE LET Emit(e) ==
             SinkCall(IterDocs(e, Hdr(e.zKey), 0,
                               SinkCall(st, [ cb |-> "xTerm", term |-> e.zKey ], failAt),
                               failAt),
                      [ cb |-> "xTermDone" ], failAt)
       IN  Emit(PatchSize(e0))

RECURSIVE IterList(_, _, _, _)
IterList(mem, pList, st, failAt) ==
  IF pList = <<>> THEN st
  ELSE IterList(mem, Tail(pList), IterEntry(mem[Head(pList)], st, failAt), failAt)

\* a faulty variant of IterFree: the drain also zeroes *pHash->pnByte
IterFree_ResetsCounter(s, st) ==
  [ h |-> [s.h EXCEPT
             !.aSlot = [ i \in DOMAIN s.h.aSlot |-> NULL ],
             !.mem = [ a \in DOMAIN s.h.mem \ { s.list[j] : j \in 1..Len(s.list) }
                         |-> s.h.mem[a] ],
             !.pnByte = 0],
    rc |-> st.rc,
    calls |-> st.calls ]

\* the memset of line 392 and the sqlite3_free of every entry of the sorted
\* list s (line 424), with what the sink st received
IterFree(s, st) ==
  [ h |-> [s.h EXCEPT
             !.aSlot = [ i \in DOMAIN s.h.aSlot |-> NULL ],
             !.mem = [ a \in DOMAIN s.h.mem \ { s.list[j] : j \in 1..Len(s.list) }
                         |-> s.h.mem[a] ]],
    rc |-> st.rc,
    calls |-> st.calls ]

sqlite3Fts5HashIterate(h, oom, failAt) ==
  LET Walk(s) ==
        IF s.rc # SQLITE_OK
          THEN [ h |-> s.h, rc |-> s.rc, calls |-> <<>> ]
          ELSE IterFree(s, IterList(s.h.mem, s.list,
                                [ calls |-> <<>>, rc |-> SQLITE_OK ], failAt))
  IN  Walk(fts5HashEntrySort(h, NoPrefix, oom))

(***************************************************************************)
(* sqlite3Fts5HashQuery, the scan cursor and sqlite3Fts5HashClear.         *)
(***************************************************************************)
\* the outputs for "not found": *ppDoclist = 0, *pnDoclist = 0
NoDoclist == [ isNull |-> TRUE, doclist |-> <<>>, nDoclist |-> 0 ]

\* the view &p->zKey[nTerm+1] of length p->nData - (sizeof(*p) + nTerm + 1)
DoclistView(e, nTerm) ==
  [ isNull |-> FALSE, doclist |-> e.buf, nDoclist |-> e.nData - (SizeofEntry + nTerm + 1) ]

\* a faulty variant of sqlite3Fts5HashQuery: the scan cursor is reset by the query
sqlite3Fts5HashQuery_ResetsCursor(h, pTerm) ==
  LET Found(p) ==
        IF p # NULL
          THEN [ h |-> [h EXCEPT !.mem[p] = PatchSize(h.mem[p]), !.pScan = NULL],
                 out |-> DoclistView(PatchSize(h.mem[p]), Len(pTerm)) ]
          ELSE [ h |-> h, out |-> NoDoclist ]
  IN  Found(Lookup(h, fts5HashKey(h.nSlot, pTerm), pTerm))

sqlite3Fts5HashQuery(h, pTerm) ==
  LET Found(p) ==
        IF p # NULL
          THEN [ h |-> [h EXCEPT !.mem[p] = PatchSize(h.mem[p])],
                 out |-> DoclistView(PatchSize(h.mem[p]), Len(pTerm)) ]
          ELSE [ h |-> h, out |-> NoDoclist ]
  IN  Found(Lookup(h, fts5HashKey(h.nSlot, pTerm), pTerm))

\* a faulty variant of sqlite3Fts5HashScanInit: a cursor in flight is kept
sqlite3Fts5HashScanInit_KeepsCursor(h, pTerm, oom) ==
  IF h.pScan # NULL THEN h
  ELSE LET Set(s) == [s.h EXCEPT !.pScan = s.pSorted]
       IN  Set(fts5HashEntrySort(h, pTerm, oom))

sqlite3Fts5HashScanInit(h, pTerm, oom) ==
  LET Set(s) == [s.h EXCEPT !.pScan = s.pSorted]
  IN  Set(fts5HashEntrySort(h, pTerm, oom))

\* sqlite3Fts5HashScanNext; g is what the read of pScan->pScanNext yields when
\* pScan points to freed memory
sqlite3Fts5HashScanNext(h, g) ==
  IF h.pScan = NULL THEN h
  ELSE IF h.pScan \in DOMAIN h.mem THEN [h EXCEPT !.pScan = h.mem[h.pScan].pScanNext]
  ELSE [h EXCEPT !.pScan = g]

sqlite3Fts5HashScanEof(h) == h.pScan = NULL

\* a faulty variant of sqlite3Fts5HashScanEntry: the views are returned without
\* the size slot having been patched
sqlite3Fts5HashScanEntry_NoPatch(h) ==
  IF h.pScan # NULL /\ h.pScan \in DOMAIN h.mem
    THEN LET Out(e) == [ h |-> h,
                         zTerm |-> e.zKey,
                         out |-> DoclistView(e, strlen(e)) ]
         IN  Out(h.mem[h.pScan])
    ELSE [ h |-> h, zTerm |-> NoPrefix, out |-> NoDoclist ]

\* sqlite3Fts5HashScanEntry on a cursor that is NULL or points to a live entry
sqlite3Fts5HashScanEntry(h) ==
  IF h.pScan # NULL /\ h.pScan \in DOMAIN h.mem
    THEN LET Out(e) == [ h |-> [h EXCEPT !.mem[h.pScan] = e],
                         zTerm |-> e.zKey,
                         out |-> DoclistView(e, strlen(e)) ]
         IN  Out(PatchSize(h.mem[h.pScan]))
    ELSE [ h |-> h, zTerm |-> NoPrefix, out |-> NoDoclist ]

\* the sum of nData over the entries at the addresses S
RECURSIVE SumNData(_, _)
SumNData(mem, S) ==
  IF S = {} THEN 0
  ELSE LET a == CHOOSE a \in S : TRUE IN mem[a].nData + SumNData(mem, S \ {a})

\* a faulty variant of sqlite3Fts5HashClear: the nData of every entry it frees
\* is taken off *pHash->pnByte
sqlite3Fts5HashClear_Decrements(h) ==
  LET Free(order) ==
        [h EXCEPT !.aSlot = [ i \in DOMAIN h.aSlot |-> NULL ],
                  !.mem = [ a \in DOMAIN h.mem \ { order[j] : j \in 1..Len(order) }
                              |-> h.mem[a] ],
                  !.nEntry = 0,
                  !.pnByte = h.pnByte
                               - SumNData(h.mem, { order[j] : j \in 1..Len(order) })]
  IN  Free(SlotOrder(h, 0))

\* a faulty variant of sqlite3Fts5HashClear: nEntry is left as it was
sqlite3Fts5HashClear_KeepsCount(h) ==
  LET Free(order) ==
        [h EXCEPT !.aSlot = [ i \in DOMAIN h.aSlot |-> NULL ],
                  !.mem = [ a \in DOMAIN h.mem \ { order[j] : j \in 1..Len(order) }
                              |-> h.mem[a] ]]
  IN  Free(SlotOrder(h, 0))

sqlite3Fts5HashClear(h) ==
  LET Free(order) ==
        [h EXCEPT !.aSlot = [ i \in DOMAIN h.aSlot |-> NULL ],
                  !.mem = [ a \in DOMAIN h.mem \ { order[j] : j \in 1..Len(order) }
                              |-> h.mem[a] ],
                  !.nEntry = 0]
  IN  Free(SlotOrder(h, 0))

(***************************************************************************)
(* The environment: what the caller may pass and what the allocator does.  *)
(***************************************************************************)
H == tab[1]

Tables == DOMAIN tab

\* SpecPair drives two accumulators with the same calls, none of which fails
FailFree == Cardinality(Tables) > 1

Triple(r, c, p) == [ rowid |-> r, col |-> c, pos |-> p ]

\* the caller's contract: rowids non-decreasing per term, columns non-decreasing
\* per rowid, positions strictly increasing per (rowid, column); the position of
\* a deletion marker (negative column) is not looked at and is passed as 0
Monotone(w, r, c, p) ==
  IF c < 0 /\ p # 0 THEN FALSE
  ELSE IF w = <<>> THEN TRUE
  ELSE LET l == w[Len(w)]
       IN  IF r # l.rowid THEN r > l.rowid
           ELSE IF c # l.col THEN c > l.col
           ELSE IF c < 0 THEN TRUE ELSE p > l.pos

IsNewTerm(h, pToken) == Lookup(h, fts5HashKey(h.nSlot, pToken), pToken) = NULL

\* line 241 for the entry the write will use
WouldGrow(h, pToken, iRowid) ==
  LET Tail22(e) == (e.nAlloc - e.nData) < TailReserve
      At(p) == IF p = NULL THEN Tail22(NewEntry(pToken, iRowid, NULL))
               ELSE Tail22(h.mem[p])
  IN  At(Lookup(h, fts5HashKey(h.nSlot, pToken), pToken))

\* the allocations this call attempts in h, any one of which may fail
FailSitesFor(h, pToken, iRowid) ==
  {"none"}
  \cup (IF IsNewTerm(h, pToken) /\ (h.nEntry * 2) >= h.nSlot THEN {"resize"} ELSE {})
  \cup (IF IsNewTerm(h, pToken) THEN {"entry"} ELSE {})
  \cup (IF WouldGrow(h, pToken, iRowid) THEN {"realloc"} ELSE {})

WriteEnvs(pToken, iRowid) ==
  LET Envs(grows, allocs, stale) ==
        [ fail  : IF FailFree THEN {"none"} ELSE FailSitesFor(H, pToken, iRowid),
          mv    : IF grows THEN BOOLEAN ELSE {FALSE},
          reuse : IF allocs /\ stale THEN BOOLEAN ELSE {FALSE} ]
  IN  Envs(\E i \in Tables : WouldGrow(tab[i], pToken, iRowid),
           \E i \in Tables : WouldGrow(tab[i], pToken, iRowid) \/ IsNewTerm(tab[i], pToken),
           \E i \in Tables : Dangling(tab[i]) # {})

OomChoices == IF FailFree THEN {FALSE} ELSE BOOLEAN

\* the sink call that fails (0: none)
IterFailAts == { 0, 1, 2, 3 }

FailAtChoices == IF FailFree THEN {0} ELSE IterFailAts

\* what a read through a pointer to freed memory may yield
GarbagePointers ==
  IF \E i \in Tables : tab[i].pScan \in Dangling(tab[i])
    THEN {NULL} \cup UNION { DOMAIN tab[i].mem \cup Dangling(tab[i]) : i \in Tables }
    ELSE {NULL}

NoWrites == [ t \in Terms \cup DocTerms |-> <<>> ]

Did(op, rc, site) == [ op |-> op, rc |-> rc, site |-> site ]

(***************************************************************************)
(* Initial states.                                                         *)
(***************************************************************************)
Init ==
  /\ tab = [ i \in {1} |-> HashNew(SlotBits) ]
  /\ written = NoWrites
  /\ dropped = 0
  /\ budget = MaxOps
  /\ last = Did("new", SQLITE_OK, "none")

\* two accumulators that differ in the size of the initial slot array
InitPair ==
  /\ tab = [ i \in {1, 2} |-> HashNew(IF i = 1 THEN SlotBits ELSE PairSlotBits) ]
  /\ written = NoWrites
  /\ dropped = 0
  /\ budget = MaxOps
  /\ last = Did("new", SQLITE_OK, "none")

\* the accumulator after the first n writes of GrowPrefill, every call succeeding
RECURSIVE Grown(_)
Grown(n) ==
  IF n = 0 THEN HashNew(SlotBits)
  ELSE sqlite3Fts5HashWrite(Grown(n - 1), GrowPrefill[n].rowid, GrowPrefill[n].col,
                            GrowPrefill[n].pos, GrowTerm,
                            [ fail |-> "none", mv |-> FALSE, reuse |-> FALSE ]).h

InitGrow ==
  /\ tab = [ i \in {1} |-> Grown(Len(GrowPrefill)) ]
  /\ written = [ t \in Terms \cup DocTerms |->
                   IF t = GrowTerm THEN GrowPrefill ELSE <<>> ]
  /\ dropped = 0
  /\ budget = GrowOps
  /\ last = Did("write", SQLITE_OK, "none")

(***************************************************************************)
(* Actions: one per public operation.                                      *)
(***************************************************************************)
Write(t, r, c, p, env) ==
  /\ budget > 0
  /\ Monotone(written[t], r, c, p)
  /\ \E res \in { [ i \in Tables |-> sqlite3Fts5HashWrite(tab[i], r, c, p, t, env) ] } :
       /\ tab' = [ i \in Tables |-> res[i].h ]
       /\ written' = IF res[1].rc = SQLITE_OK
                       THEN [written EXCEPT ![t] = Append(@, Triple(r, c, p))]
                       ELSE written
       /\ last' = Did("write", res[1].rc, res[1].site)
  /\ budget' = budget - 1
  /\ UNCHANGED dropped

Query(t) ==
  /\ budget > 0
  /\ tab' = [ i \in Tables |-> sqlite3Fts5HashQuery(tab[i], t).h ]
  /\ last' = Did("query", SQLITE_OK, "none")
  /\ budget' = budget - 1
  /\ UNCHANGED <<written, dropped>>

ScanInit(pTerm, oom) ==
  /\ budget > 0
  /\ tab' = [ i \in Tables |-> sqlite3Fts5HashScanInit(tab[i], pTerm, oom) ]
  /\ last' = Did("scan_init", "void", IF oom THEN "mergeslots" ELSE "none")
  /\ budget' = budget - 1
  /\ UNCHANGED <<written, dropped>>

ScanNext(g) ==
  /\ budget > 0
  /\ tab' = [ i \in Tables |-> sqlite3Fts5HashScanNext(tab[i], g) ]
  /\ last' = Did("scan_next", "void", "none")
  /\ budget' = budget - 1
  /\ UNCHANGED <<written, dropped>>

ScanEntry ==
  /\ budget > 0
  /\ tab' = [ i \in Tables |-> sqlite3Fts5HashScanEntry(tab[i]).h ]
  /\ last' = Did("scan_entry", "void", "none")
  /\ budget' = budget - 1
  /\ UNCHANGED <<written, dropped>>

Iterate(oom, failAt) ==
  /\ budget > 0
  /\ \E res \in { [ i \in Tables |-> sqlite3Fts5HashIterate(tab[i], oom, failAt) ] } :
       /\ tab' = [ i \in Tables |-> res[i].h ]
       /\ dropped' = dropped + SumNData(H.mem, DOMAIN H.mem \ DOMAIN res[1].h.mem)
       /\ last' = Did("iterate", res[1].rc,
                      IF oom THEN "mergeslots"
                      ELSE IF res[1].rc # SQLITE_OK THEN "sink" ELSE "none")
  /\ written' = IF oom THEN written ELSE NoWrites
  /\ budget' = budget - 1

Clear ==
  /\ budget > 0
  /\ \E h1 \in { sqlite3Fts5HashClear(H) } :
       /\ tab' = [ i \in Tables |-> IF i = 1 THEN h1 ELSE sqlite3Fts5HashClear(tab[i]) ]
       /\ dropped' = dropped + SumNData(H.mem, DOMAIN H.mem \ DOMAIN h1.mem)
  /\ written' = NoWrites
  /\ last' = Did("clear", "void", "none")
  /\ budget' = budget - 1

\* the calls a caller makes that writes terms T with values from R, C and P
Calls(T, R, C, P) ==
  \/ \E t \in T, r \in R, c \in C, p \in P :
       \E env \in WriteEnvs(t, r) : Write(t, r, c, p, env)
  \/ \E t \in T : Query(t)
  \/ \E pTerm \in ScanPrefixes, oom \in OomChoices : ScanInit(pTerm, oom)
  \/ \E g \in GarbagePointers : ScanNext(g)
  \/ ScanEntry
  \/ \E oom \in OomChoices, failAt \in FailAtChoices : Iterate(oom, failAt)
  \/ Clear

Next == Calls(Terms, Rowids, Columns, Poses)

NextDoc == Calls(DocTerms, DocRowids, DocColumns, DocPoses)

\* one accumulator, many terms
Spec == Init /\ [][Next]_vars

\* one accumulator, many documents and positions under few terms
SpecDoc == Init /\ [][NextDoc]_vars

\* two accumulators that receive the same calls
SpecPair == InitPair /\ [][Next]_vars

\* one accumulator whose GrowTerm entry is about to outgrow its allocation
SpecGrow == InitGrow /\ [][Next]_vars


(***************************************************************************)
(* What the caller observes, used to state the properties below.           *)
(***************************************************************************)
AllTerms == Terms \cup DocTerms

\* the bytes point_query(t) returns in table h
QueryBytes(h, t) == sqlite3Fts5HashQuery(h, t).out.doclist

\* the terms a cursor walk visits from the cursor's present place: scan_entry,
\* scan_next, ... until scan_eof (at most n steps)
RECURSIVE WalkTerms(_, _)
WalkTerms(h, n) ==
  IF sqlite3Fts5HashScanEof(h) \/ n = 0 THEN <<>>
  ELSE LET Step(r) == <<r.zTerm>> \o WalkTerms(sqlite3Fts5HashScanNext(r.h, NULL), n - 1)
       IN  Step(sqlite3Fts5HashScanEntry(h))

\* the walk that scan_init(pTerm) starts in table h
ScanTerms(h, pTerm, oom) ==
  WalkTerms(sqlite3Fts5HashScanInit(h, pTerm, oom), Cardinality(DOMAIN h.mem) + 1)

\* the terms of the on_term calls among calls
OnTerms(calls) ==
  LET T == SelectSeq(calls, LAMBDA c : c.cb = "xTerm")
  IN  [ i \in 1..Len(T) |-> T[i].term ]

\* s sorts strictly before t as a sequence of unsigned bytes
LexLess(s, t) ==
  \E i \in 1..(Len(t)) :
    /\ \A j \in 1..(i - 1) : j <= Len(s) /\ s[j] = t[j]
    /\ (i > Len(s) \/ (i <= Len(s) /\ s[i] < t[i]))

Ascending(ts) == \A i \in 1..(Len(ts) - 1) : LexLess(ts[i], ts[i + 1])

\* P is an initial segment of t (every t for the null pointer)
StartsWith(t, P) ==
  P = NoPrefix \/ (Len(P) <= Len(t) /\ \A i \in 1..Len(P) : t[i] = P[i])

Range(f) == { f[i] : i \in DOMAIN f }

\* the terms under which something has been written and not dropped since
LiveTerms == { t \in AllTerms : written[t] # <<>> }

\* the keys of the chains of h, in slot order
SlotKeys(h) == [ j \in 1..Len(SlotOrder(h, 0)) |-> h.mem[SlotOrder(h, 0)[j]].zKey ]

(***************************************************************************)
(* The inverse of the write encoding: a doclist is a sequence of blocks    *)
(* <rowid delta> <4-byte size> <poslist>, a poslist a sequence of          *)
(* (0x01 <column>)? <position delta + 2>.                                  *)
(***************************************************************************)
RECURSIVE DecodePoslist(_, _, _, _, _)
DecodePoslist(a, i, end, col, pos) ==
  IF i > end THEN <<>>
  ELSE IF a[i] = 1
    THEN DecodePoslist(a, i + 1 + GetVarint(a, i + 1).n, end, GetVarint(a, i + 1).val, 0)
    ELSE << [ col |-> col, pos |-> pos + GetVarint(a, i).val - 2 ] >>
         \o DecodePoslist(a, i + GetVarint(a, i).n, end, col,
                          pos + GetVarint(a, i).val - 2)

RECURSIVE DecodeDoclist(_, _, _)
DecodeDoclist(a, i, rowid) ==
  IF i > Len(a) THEN <<>>
  ELSE LET Block(r, start, sz) ==
             << [ rowid |-> r, poslist |-> DecodePoslist(a, start, start + sz - 1, 0, 0) ] >>
             \o DecodeDoclist(a, start + sz, r)
           Rowid(d) ==
             Block(rowid + d.val, i + d.n + 4,
                   Get4ByteVarint(SubSeq(a, i + d.n, i + d.n + 3)).val)
       IN  Rowid(GetVarint(a, i))

Decode(a) == DecodeDoclist(a, 1, 0)

\* the (rowid, column, position) triples of decoded blocks, in order
RECURSIVE TriplesOf(_)
TriplesOf(docs) ==
  IF docs = <<>> THEN <<>>
  ELSE [ k \in 1..Len(Head(docs).poslist) |->
           Triple(Head(docs).rowid, Head(docs).poslist[k].col, Head(docs).poslist[k].pos) ]
       \o TriplesOf(Tail(docs))

\* the blocks a write sequence w stands for: one per rowid, in write order,
\* holding the (column, position) pairs written with a column >= 0
RECURSIVE BlocksOf(_)
BlocksOf(w) ==
  IF w = <<>> THEN <<>>
  ELSE LET Add(docs, x) ==
             LET item == IF x.col >= 0 THEN << [ col |-> x.col, pos |-> x.pos ] >>
                         ELSE <<>>
             IN  IF docs # <<>> /\ docs[Len(docs)].rowid = x.rowid
                   THEN [docs EXCEPT ![Len(docs)].poslist = @ \o item]
                   ELSE Append(docs, [ rowid |-> x.rowid, poslist |-> item ])
       IN  Add(BlocksOf(SubSeq(w, 1, Len(w) - 1)), w[Len(w)])

(***************************************************************************)
(* C1.  Round trip.                                                        *)
(***************************************************************************)
\* C1 as stated: for every term t, the bytes point_query(t) returns decode to
\* exactly the (rowid, column, position) triples written under t, in write order
C1_RoundTripAllTriples ==
  \A t \in LiveTerms : TriplesOf(Decode(QueryBytes(H, t))) = written[t]

\* C1 amended: the bytes point_query(t) returns decode to one block per rowid
\* written under t, in write order, holding exactly the (column, position) pairs
\* written with a column >= 0 under that rowid; a write with a negative column
\* leaves no triple behind (only the block of its rowid)
C1_RoundTrip ==
  \A t \in LiveTerms : Decode(QueryBytes(H, t)) = BlocksOf(written[t])

\* a term queried after three writes: two rowids, a deletion marker and a
\* column change
C1_Witness ==
  /\ last.op = "query"
  /\ \E t \in LiveTerms :
       /\ Len(written[t]) >= 3
       /\ \E i, j, k \in 1..Len(written[t]) :
            /\ written[t][i].rowid # written[t][j].rowid
            /\ written[t][k].col < 0
            /\ written[t][j].col > 0

(***************************************************************************)
(* C2.  Scan order.                                                        *)
(***************************************************************************)
\* C2: the terms a cursor walk visits after scan_init (any prefix), and the
\* terms iterate hands to on_term, are strictly ascending as unsigned bytes,
\* a strict prefix of a key sorting before that key
C2_ScanOrder ==
  /\ \A P \in Prefixes, oom \in BOOLEAN : Ascending(ScanTerms(H, P, oom))
  /\ \A oom \in BOOLEAN, failAt \in IterFailAts :
       Ascending(OnTerms(sqlite3Fts5HashIterate(H, oom, failAt).calls))

\* a cursor opened on three entries whose bucket order is not the key order
C2_Witness ==
  /\ last.op = "scan_init"
  /\ Len(WalkTerms(H, 4)) = 3
  /\ ~Ascending(SlotKeys(H))

(***************************************************************************)
(* C3.  Prefix restriction.                                                *)
(***************************************************************************)
\* C3: when the allocation of scan_init succeeds, the walk it starts visits
\* each live term that starts with the prefix exactly once and no other term;
\* an empty or absent prefix visits every live term once
C3_PrefixRestriction ==
  \A P \in Prefixes :
    LET Exactly(walk, S) == Range(walk) = S /\ Len(walk) = Cardinality(S)
    IN  Exactly(ScanTerms(H, P, FALSE), { t \in LiveTerms : StartsWith(t, P) })

\* a cursor opened with prefix "a" on the terms "a", "ab" and 0xCE: it visits
\* the first two and not the third
C3_Witness ==
  /\ last.op = "scan_init"
  /\ LiveTerms = Terms
  /\ WalkTerms(H, 4) = << <<97>>, <<97, 98>> >>

(***************************************************************************)
(* C4.  Post-drain emptiness.                                              *)
(***************************************************************************)
\* C4 as stated: after iterate has completed successfully, scan_eof is true,
\* point_query of every term returns empty and entry_count is 0
C4_PostDrainEmptiness ==
  (last.op = "iterate" /\ last.rc = SQLITE_OK) =>
    /\ sqlite3Fts5HashScanEof(H)
    /\ \A t \in AllTerms : sqlite3Fts5HashQuery(H, t).out = NoDoclist
    /\ H.nEntry = 0

(***************************************************************************)
(* C5.  Load factor.                                                       *)
(***************************************************************************)
\* C5 as stated: immediately after a successful write the number of entries
\* held in the table is at most half the slot count
C5_LoadFactor ==
  (last.op = "write" /\ last.rc = SQLITE_OK) =>
    Len(SlotOrder(H, 0)) * 2 <= H.nSlot

(***************************************************************************)
(* C6, C7, C8.  The external byte counter.                                 *)
(***************************************************************************)
LiveNData(h) == SumNData(h.mem, DOMAIN h.mem)

\* the bytes in use for the doclists alone: nData less the entry header, the
\* key and its terminator
RECURSIVE SumPayload(_, _)
SumPayload(mem, S) ==
  IF S = {} THEN 0
  ELSE LET a == CHOOSE a \in S : TRUE
       IN  (mem[a].nData - Hdr(mem[a].zKey)) + SumPayload(mem, S \ {a})

\* C6 as stated: as long as no entry has been dropped, the counter equals the
\* sum over the entries of the bytes in use for the doclist payload
C6_CounterIsPayload ==
  dropped = 0 => H.pnByte = SumPayload(H.mem, DOMAIN H.mem)

\* C6 amended: as long as no entry has been dropped, the counter equals the sum
\* over the entries of nData, which counts the 48-byte entry header, the key
\* and its terminator as well as the doclist bytes
C6_CounterIsNData ==
  dropped = 0 => H.pnByte = LiveNData(H)

\* two entries, one of them written to twice, nothing dropped
C6_Witness ==
  /\ last.op = "write" /\ last.rc = SQLITE_OK
  /\ dropped = 0
  /\ Cardinality(DOMAIN H.mem) = 2
  /\ \E t \in LiveTerms : Len(written[t]) >= 2

\* C7 as stated: at every boundary the counter equals the sum of nData over
\* the live entries
C7_CounterIsLive == H.pnByte = LiveNData(H)

\* C7 amended: at every boundary the counter equals the sum of nData over the
\* live entries plus the nData of every entry that clear or iterate has
\* dropped; it never goes down
C7_CounterIsLivePlusDropped == H.pnByte = LiveNData(H) + dropped

\* a write after clear has dropped entries: the counter covers both
C7_Witness ==
  /\ last.op = "write" /\ last.rc = SQLITE_OK
  /\ dropped > 0
  /\ LiveNData(H) > 0

\* C8: clear, iterate, point_query and the scan operations leave the counter
\* as it was
C8_CounterFrame ==
  [][ last'.op \in { "clear", "iterate", "query", "scan_init", "scan_next", "scan_entry" }
        => tab'[1].pnByte = tab[1].pnByte ]_vars

\* iterate has drained entries and the counter still counts them
C8_Witness ==
  /\ last.op = "iterate" /\ last.rc = SQLITE_OK
  /\ DOMAIN H.mem = {}
  /\ H.pnByte > 0
  /\ H.pnByte = dropped

(***************************************************************************)
(* C9.  Resize stability (two accumulators, SpecPair).                     *)
(***************************************************************************)
CursorLive(h) == h.pScan = NULL \/ h.pScan \in DOMAIN h.mem

\* C9: two accumulators that differ in their initial slot count and receive
\* the same calls return the same doclist for every term, start the same walk
\* for every prefix, stand at the same place of the walk in progress, and hand
\* the same calls to the sink of iterate
C9_ResizeStability ==
  /\ \A t \in AllTerms :
       sqlite3Fts5HashQuery(tab[1], t).out = sqlite3Fts5HashQuery(tab[2], t).out
  /\ \A P \in Prefixes : ScanTerms(tab[1], P, FALSE) = ScanTerms(tab[2], P, FALSE)
  /\ (CursorLive(tab[1]) /\ CursorLive(tab[2])) =>
       WalkTerms(tab[1], 4) = WalkTerms(tab[2], 4)
  /\ sqlite3Fts5HashIterate(tab[1], FALSE, 0).calls
       = sqlite3Fts5HashIterate(tab[2], FALSE, 0).calls

\* the first accumulator has grown its slot array, the two hold their entries
\* in different bucket orders, and a walk is in progress
C9_Witness ==
  /\ tab[1].nSlot > Pow2(SlotBits)
  /\ tab[1].nSlot # tab[2].nSlot
  /\ SlotKeys(tab[1]) # SlotKeys(tab[2])
  /\ Len(WalkTerms(tab[1], 4)) >= 2

(***************************************************************************)
(* C10.  A failed write (SpecGrow).                                        *)
(***************************************************************************)
\* what the caller can tell about the entries of h: key, doclist bytes, nData
\* and the cursors
Entries(h) ==
  { [ zKey       |-> h.mem[a].zKey,
      payload    |-> SubSeq(h.mem[a].buf, 1, h.mem[a].nData - Hdr(h.mem[a].zKey)),
      nData      |-> h.mem[a].nData,
      iRowid     |-> h.mem[a].iRowid,
      iCol       |-> h.mem[a].iCol,
      iPos       |-> h.mem[a].iPos,
      iSzPoslist |-> h.mem[a].iSzPoslist ] : a \in DOMAIN h.mem }

\* C10: a write that returns SQLITE_NOMEM leaves the entries (keys, doclist
\* bytes, nData, cursors), nEntry and the counter as they were, and every term
\* written before is still found by point_query
C10_FailedWriteAtomic ==
  [][ (last'.op = "write" /\ last'.rc = SQLITE_NOMEM) =>
        /\ Entries(tab'[1]) = Entries(tab[1])
        /\ tab'[1].nEntry = tab[1].nEntry
        /\ tab'[1].pnByte = tab[1].pnByte
        /\ \A t \in LiveTerms :
             /\ ~sqlite3Fts5HashQuery(tab'[1], t).out.isNull
             /\ sqlite3Fts5HashQuery(tab'[1], t).out
                  = sqlite3Fts5HashQuery(tab[1], t).out ]_vars

\* the reallocation of the entry of GrowTerm has failed
C10_Witness ==
  /\ last.op = "write" /\ last.rc = SQLITE_NOMEM /\ last.site = "realloc"
  /\ written[GrowTerm] = GrowPrefill
  /\ H.nEntry >= 1

(***************************************************************************)
(* C11.  scan_init and allocation failure.                                 *)
(***************************************************************************)
\* what the scan interface tells the caller about the cursor of h: scan_eof and
\* the outputs of scan_entry
ScanView(h) ==
  [ eof   |-> sqlite3Fts5HashScanEof(h),
    zTerm |-> sqlite3Fts5HashScanEntry(h).zTerm,
    out   |-> sqlite3Fts5HashScanEntry(h).out ]

\* a prefix no key of Terms starts with
NoMatchPrefix == <<97, 98, 99>>

\* C11 as stated: a scan_init whose merge-slot allocation failed gives its
\* caller an outcome (status returned, and what scan_eof and scan_entry then
\* answer) that differs from the outcome of a successful scan_init that matched
\* no term
C11_ScanInitReportsNomem ==
  [][ (last'.op = "scan_init" /\ last'.site = "mergeslots") =>
        [ rc |-> last'.rc, view |-> ScanView(tab'[1]) ]
          # [ rc   |-> "void",
              view |-> ScanView(sqlite3Fts5HashScanInit(tab[1], NoMatchPrefix, FALSE)) ]
    ]_vars

(***************************************************************************)
(* C12.  A sink error during iterate (SpecGrow).                           *)
(***************************************************************************)
\* iterate of h whose merge slots are allocated and whose sink fails on its
\* failAt-th call (0: never)
Drain(h, failAt) == sqlite3Fts5HashIterate(h, FALSE, failAt)

Emptied(h) ==
  /\ DOMAIN h.mem = {}
  /\ h.nEntry = 0
  /\ \A i \in DOMAIN h.aSlot : h.aSlot[i] = NULL

\* C12: when the k-th callback of iterate returns a non-OK status, the sink has
\* received exactly the first k calls of the undisturbed drain and none after,
\* iterate returns that status, and every entry, emitted or not, has been
\* freed: nEntry is 0 and all slots are null
C12_SinkErrorAborts ==
  /\ \A k \in IterFailAts \ {0} :
       LET Aborted(full, r) ==
             IF Len(full.calls) >= k
               THEN /\ r.rc = SQLITE_ERROR
                    /\ r.calls = SubSeq(full.calls, 1, k)
                    /\ Emptied(r.h)
               ELSE r = full
       IN  Aborted(Drain(H, 0), Drain(H, k))
  /\ (last.op = "iterate" /\ last.site = "sink") =>
       (last.rc = SQLITE_ERROR /\ Emptied(H))

\* iterate has failed in the sink and has freed more than the one entry the
\* sink had seen
C12_Witness ==
  /\ last.op = "iterate" /\ last.site = "sink"
  /\ DOMAIN H.mem = {}
  /\ dropped > LiveNData(Grown(Len(GrowPrefill)))

(***************************************************************************)
(* C13.  The callback protocol of a successful iterate (SpecGrow).         *)
(***************************************************************************)
\* the terms of S in ascending unsigned byte order
RECURSIVE SortedTerms(_)
SortedTerms(S) ==
  IF S = {} THEN <<>>
  ELSE LET m == CHOOSE m \in S : \A t \in S \ {m} : LexLess(m, t)
       IN  <<m>> \o SortedTerms(S \ {m})

\* what identifies a callback: its kind, and the term or the rowid it carries
CallShape(c) ==
  IF c.cb = "xTerm" THEN [ cb |-> "xTerm", term |-> c.term ]
  ELSE IF c.cb = "xEntry" THEN [ cb |-> "xEntry", iRowid |-> c.iRowid ]
  ELSE [ cb |-> "xTermDone" ]

\* the callbacks the writes w under term t call for: on_term, one on_doc per
\* distinct rowid in write order, on_term_end
TermProtocol(t, w) ==
  << [ cb |-> "xTerm", term |-> t ] >>
  \o [ i \in 1..Len(BlocksOf(w)) |-> [ cb |-> "xEntry", iRowid |-> BlocksOf(w)[i].rowid ] ]
  \o << [ cb |-> "xTermDone" ] >>

RECURSIVE Protocol(_)
Protocol(ts) ==
  IF ts = <<>> THEN <<>>
  ELSE TermProtocol(Head(ts), written[Head(ts)]) \o Protocol(Tail(ts))

\* C13: a successful iterate calls, for each live term in ascending key order,
\* on_term once, then on_doc once per distinct rowid written under the term, in
\* write order and with the rowid as written, then on_term_end once; the calls
\* of different terms are not interleaved
C13_DrainProtocol ==
  LET Follows(r) ==
        /\ r.rc = SQLITE_OK
        /\ [ i \in 1..Len(r.calls) |-> CallShape(r.calls[i]) ]
             = Protocol(SortedTerms(LiveTerms))
  IN  Follows(Drain(H, 0))

\* three live terms, one of them written under two rowids
C13_Witness ==
  /\ Cardinality(LiveTerms) = 3
  /\ \E t \in LiveTerms : Len(BlocksOf(written[t])) = 2
  /\ Len(Drain(H, 0).calls) = 10

(***************************************************************************)
(* SpecBig: an accumulator whose entry of GrowTerm holds a position list   *)
(* of more than 127 bytes, so that its size needs a 2-byte varint.         *)
(***************************************************************************)
BigOps == 3

\* rowid 1, fifteen columns, a 5-byte position varint in each: 131 bytes
BigPrefill ==
  [ k \in 1..15 |-> [ rowid |-> 1,
                      col   |-> IF k = 1 THEN 0 ELSE 16382 + k,
                      pos   |-> 268435456 ] ]

\* the accumulator h after the writes k..n of BigPrefill, every call succeeding
\* (a slot array is never empty: reading h.nSlot evaluates h before the next write)
RECURSIVE BigFill(_, _, _)
BigFill(h, k, n) ==
  IF k > n \/ h.nSlot = 0 THEN h
  ELSE BigFill(sqlite3Fts5HashWrite(h, BigPrefill[k].rowid, BigPrefill[k].col,
                                    BigPrefill[k].pos, GrowTerm,
                                    [ fail |-> "none", mv |-> FALSE, reuse |-> FALSE ]).h,
               k + 1, n)

BigTable(n) == BigFill(HashNew(SlotBits), 1, n)

InitBig ==
  /\ tab = [ i \in {1} |-> BigTable(Len(BigPrefill)) ]
  /\ written = [ t \in Terms \cup DocTerms |->
                   IF t = GrowTerm THEN BigPrefill ELSE <<>> ]
  /\ dropped = 0
  /\ budget = BigOps
  /\ last = Did("write", SQLITE_OK, "none")

SpecBig == InitBig /\ [][Next]_vars

(***************************************************************************)
(* The write encoding of a position list, from the (column, position)      *)
(* pairs it stands for.                                                    *)
(***************************************************************************)
RECURSIVE EncodePoslist(_, _, _)
EncodePoslist(items, col, pos) ==
  IF items = <<>> THEN <<>>
  ELSE LET x == Head(items)
       IN  (IF x.col # col
              THEN <<1>> \o PutVarint(x.col) \o PutVarint(x.pos + 2)
              ELSE PutVarint(x.pos - pos + 2))
           \o EncodePoslist(Tail(items), x.col, x.pos)

PoslistBytes(block) == EncodePoslist(block.poslist, 0, 0)

\* the position lists of the documents of the terms ts, term by term
RECURSIVE PoslistsOf(_)
PoslistsOf(ts) ==
  IF ts = <<>> THEN <<>>
  ELSE [ i \in 1..Len(BlocksOf(written[Head(ts)])) |->
           PoslistBytes(BlocksOf(written[Head(ts)])[i]) ]
       \o PoslistsOf(Tail(ts))

\* the on_doc calls among calls
OnDocs(calls) == SelectSeq(calls, LAMBDA c : c.cb = "xEntry")

(***************************************************************************)
(* C14.  What on_doc receives (SpecBig).                                   *)
(***************************************************************************)
\* C14 as stated: the bytes of every on_doc call are the 4-byte fixed-width
\* size varint followed by the position-list bytes of the document
C14_FramedFourBytes ==
  LET Framed(docs, pls) ==
        /\ Len(docs) = Len(pls)
        /\ \A i \in 1..Len(docs) :
             docs[i].data = Put4ByteVarint(Len(pls[i])) \o pls[i]
  IN  Framed(OnDocs(Drain(H, 0).calls), PoslistsOf(SortedTerms(LiveTerms)))

\* C14 amended: the bytes of every on_doc call are the size of the position
\* list as a varint of its natural length (1 to 4 bytes: the last bytes of the
\* 4-byte slot, its padding left out) followed by the position-list bytes of
\* the document, and the length passed is the length of these bytes
C14_FramedNatural ==
  LET Framed(docs, pls) ==
        /\ Len(docs) = Len(pls)
        /\ \A i \in 1..Len(docs) :
             /\ docs[i].data = PutVarint(Len(pls[i])) \o pls[i]
             /\ docs[i].n = Len(docs[i].data)
  IN  Framed(OnDocs(Drain(H, 0).calls), PoslistsOf(SortedTerms(LiveTerms)))

\* a document whose position list takes a 2-byte size and one whose position
\* list takes a 1-byte size
C14_Witness ==
  LET Sizes(pls) ==
        /\ \E i \in 1..Len(pls) : Len(pls[i]) >= 128
        /\ \E i \in 1..Len(pls) : Len(pls[i]) \in 1..127
  IN  /\ last.op = "write" /\ last.rc = SQLITE_OK
      /\ Sizes(PoslistsOf(SortedTerms(LiveTerms)))

(***************************************************************************)
(* C15.  The layout of the doclist point_query returns (SpecDoc).          *)
(***************************************************************************)
\* the blocks laid out as the claim has them: rowid-delta varint, the
\* position-list bytes, then the 4-byte size varint
RECURSIVE LayoutSizeLast(_, _)
LayoutSizeLast(blocks, iRowid) ==
  IF blocks = <<>> THEN <<>>
  ELSE LET b == Head(blocks)
       IN  PutVarint(b.rowid - iRowid) \o PoslistBytes(b)
           \o Put4ByteVarint(Len(PoslistBytes(b)))
           \o LayoutSizeLast(Tail(blocks), b.rowid)

\* the blocks laid out as the code writes them: rowid-delta varint, the 4-byte
\* size varint, then the position-list bytes
RECURSIVE LayoutSizeFirst(_, _)
LayoutSizeFirst(blocks, iRowid) ==
  IF blocks = <<>> THEN <<>>
  ELSE LET b == Head(blocks)
       IN  PutVarint(b.rowid - iRowid) \o Put4ByteVarint(Len(PoslistBytes(b)))
           \o PoslistBytes(b)
           \o LayoutSizeFirst(Tail(blocks), b.rowid)

RECURSIVE WalkEnd(_, _)
WalkEnd(h, n) ==
  IF sqlite3Fts5HashScanEof(h) \/ n = 0 THEN h
  ELSE WalkEnd(sqlite3Fts5HashScanNext(sqlite3Fts5HashScanEntry(h).h, NULL), n - 1)

\* at every place of the walk scan_entry returns the key of the entry under the
\* cursor and the doclist point_query returns for that key
RECURSIVE WalkAgrees(_, _)
WalkAgrees(h, n) ==
  IF sqlite3Fts5HashScanEof(h) \/ n = 0 THEN TRUE
  ELSE LET Agrees(r) ==
             /\ r.zTerm = h.mem[h.pScan].zKey
             /\ r.out = sqlite3Fts5HashQuery(h, r.zTerm).out
             /\ ~r.out.isNull
             /\ WalkAgrees(sqlite3Fts5HashScanNext(r.h, NULL), n - 1)
       IN  Agrees(sqlite3Fts5HashScanEntry(h))

\* the entries of h and how they are linked in the bucket chains
Linkage(h) ==
  [ slots |-> h.aSlot, next |-> [ a \in DOMAIN h.mem |-> h.mem[a].pHashNext ] ]

SlotBlanked(e) == PutAt(e, e.iSzPoslist, <<0, 0, 0, 0>>)

\* C17: point_query of any term changes nothing but the 4 bytes of the size
\* slot of the entry it finds: the slot array, nSlot, nEntry, the scan cursor,
\* the byte counter, the set of entries and every entry's links, length, cursors
\* and other bytes are as before; asking again returns the same bytes and
\* changes nothing more; a term with no live write yields the null result and
\* changes nothing at all
C17_QueryNonDestructive ==
  \A t \in AllTerms :
    LET Kept(r, again) ==
          /\ DOMAIN r.h.mem = DOMAIN H.mem
          /\ [r.h EXCEPT !.mem = H.mem] = H
          /\ \A a \in DOMAIN H.mem :
               IF H.mem[a].zKey = t
                 THEN SlotBlanked(r.h.mem[a]) = SlotBlanked(H.mem[a])
                 ELSE r.h.mem[a] = H.mem[a]
          /\ again = r
          /\ (written[t] = <<>>) => (r.out = NoDoclist /\ r.h = H)
          /\ (written[t] # <<>>) => (~r.out.isNull /\ r.out.nDoclist > 4)
    IN  Kept(sqlite3Fts5HashQuery(H, t),
             sqlite3Fts5HashQuery(sqlite3Fts5HashQuery(H, t).h, t))

\* a query has just patched the size slot of an entry with two documents while
\* a cursor is open on it; another term has never been written
C17_Witness ==
  /\ last.op = "query"
  /\ H.pScan \in DOMAIN H.mem
  /\ \E t \in LiveTerms :
       /\ Len(BlocksOf(written[t])) = 2
       /\ H.mem[H.pScan].zKey = t
       /\ PatchSize(H.mem[H.pScan]) = H.mem[H.pScan]
  /\ \E t \in AllTerms : written[t] = <<>>


(***************************************************************************)
(* C18.  clear, and the writes that follow it (SpecGrow).                  *)
(***************************************************************************)
FollowLen == 3

\* the writes a caller may make after clear
FollowWrites ==
  { [ term |-> t, rowid |-> 1 ] : t \in Terms } \cup { [ term |-> <<97>>, rowid |-> 3 ] }

\* the sequences of at most FollowLen different writes with the rowids of each
\* term ascending
FollowSeqs ==
  { ws \in UNION { [1..n -> FollowWrites] : n \in 1..FollowLen } :
      \A i, j \in 1..Len(ws) :
        i < j => /\ ws[i] # ws[j]
                 /\ (ws[i].term = ws[j].term => ws[i].rowid < ws[j].rowid) }

\* table h after the writes ws (column 0, position 0), every call succeeding;
\* reuse: the allocator hands out again a freed block something still points to
RECURSIVE Apply(_, _, _)
Apply(h, ws, reuse) ==
  IF ws = <<>> \/ h.nSlot = 0 THEN h
  ELSE Apply(sqlite3Fts5HashWrite(h, Head(ws).rowid, 0, 0, Head(ws).term,
                                  [ fail |-> "none", mv |-> FALSE, reuse |-> reuse ]).h,
             Tail(ws), reuse)

\* what a caller can learn of the entries of h: the doclist of every term, the
\* order of a full cursor walk and the calls of a drain
Observe(h) ==
  [ query |-> [ t \in AllTerms |-> sqlite3Fts5HashQuery(h, t).out ],
    scan  |-> ScanTerms(h, NoPrefix, FALSE),
    drain |-> Drain(h, 0).calls ]

\* C18: whatever the state clear was called in, it has left no entry, nEntry = 0
\* and every slot null, so that point_query of every term is empty and a walk
\* visits nothing; and the writes that follow give the doclists, the scan order
\* and the drain they give in a new accumulator
C18_ClearEmpties ==
  LET Cleared(c) ==
        /\ Emptied(c)
        /\ \A t \in AllTerms : sqlite3Fts5HashQuery(c, t).out = NoDoclist
        /\ ScanTerms(c, NoPrefix, FALSE) = <<>>
        /\ \A ws \in FollowSeqs :
             \A reuse \in (IF Dangling(c) # {} THEN BOOLEAN ELSE {FALSE}) :
               Observe(Apply(c, ws, reuse)) = Observe(Apply(HashNew(SlotBits), ws, FALSE))
  IN  (last.op = "clear") => Cleared(H)

\* clear has just freed two entries of a table that has grown its slot array,
\* with the cursor left on one of them
C18_Witness ==
  /\ last.op = "clear"
  /\ dropped > LiveNData(Grown(Len(GrowPrefill)))
  /\ H.nSlot > HashNew(SlotBits).nSlot
  /\ H.pScan # NULL


(***************************************************************************)
(* C19.  Every entry is on the chain of its slot (SpecGrow).               *)
(***************************************************************************)
\* how often address a occurs in the sequence q
Occurrences(q, a) == Cardinality({ j \in 1..Len(q) : q[j] = a })

\* C19: between calls every live entry is linked exactly once in the bucket
\* chains, on the chain of slot hash(key) mod nSlot, and the chains link nothing
\* else, however often the slot array has been resized; point_query of every
\* live term returns a doclist that is not empty, and iterate hands every live
\* term to on_term exactly once
C19_RehashCorrect ==
  /\ \A a \in DOMAIN H.mem :
       /\ Occurrences(SlotOrder(H, 0), a) = 1
       /\ Occurrences(Chain(H, fts5HashKey(H.nSlot, H.mem[a].zKey)), a) = 1
  /\ Len(SlotOrder(H, 0)) = Cardinality(DOMAIN H.mem)
  /\ \A t \in LiveTerms :
       /\ ~sqlite3Fts5HashQuery(H, t).out.isNull
       /\ sqlite3Fts5HashQuery(H, t).out.nDoclist > 0
       /\ Occurrences(OnTerms(Drain(H, 0).calls), t) = 1
  /\ Len(OnTerms(Drain(H, 0).calls)) = Cardinality(LiveTerms)

\* three entries in a slot array that has been resized twice, at least one
\* entry on a slot the smaller arrays did not have
C19_Witness ==
  /\ last.op = "write"
  /\ H.nSlot = 4 * HashNew(SlotBits).nSlot
  /\ Cardinality(LiveTerms) = 3
  /\ \E i \in DOMAIN H.aSlot : i >= HashNew(SlotBits).nSlot /\ H.aSlot[i] # NULL


(***************************************************************************)
(* C20.  The deletion marker (SpecDoc).                                    *)
(***************************************************************************)
\* the entry of term t in table h
EntryOf(h, t) == h.mem[CHOOSE a \in DOMAIN h.mem : h.mem[a].zKey = t]

\* what an entry holds beside its links and the size of its allocation
Payload(e) ==
  [ buf |-> e.buf, nData |-> e.nData, iSzPoslist |-> e.iSzPoslist,
    iCol |-> e.iCol, iPos |-> e.iPos, iRowid |-> e.iRowid ]

\* the payload after the rowid work alone of a write of rowid r under term t:
\* a new entry with the rowid and an empty size slot; or the entry as it was,
\* when r is its rowid; or else the entry with its size slot patched, the
\* rowid delta and an empty size slot appended and the cursors reset
RowidWorkOnly(t, r) ==
  IF written[t] = <<>>
    THEN [ buf |-> PutVarint(r) \o <<0, 0, 0, 0>>,
           nData |-> SizeofEntry + Len(t) + 1 + Len(PutVarint(r)) + 4,
           iSzPoslist |-> SizeofEntry + Len(t) + 1 + Len(PutVarint(r)),
           iCol |-> 0, iPos |-> 0, iRowid |-> r ]
  ELSE LET Old(e) ==
             IF r = e.iRowid THEN Payload(e)
             ELSE [ buf |-> PatchSize(e).buf \o PutVarint(r - e.iRowid) \o <<0, 0, 0, 0>>,
                    nData |-> e.nData + Len(PutVarint(r - e.iRowid)) + 4,
                    iSzPoslist |-> e.nData + Len(PutVarint(r - e.iRowid)),
                    iCol |-> 0, iPos |-> 0, iRowid |-> r ]
       IN  Old(EntryOf(H, t))

\* C20: a successful write with a negative column does the rowid work and
\* nothing else: no column marker and no position byte is appended and iCol
\* and iPos are as the rowid work left them; on a new term the doclist is the
\* rowid varint followed by a size slot of 0
C20_DeletionMarker ==
  [][ \A t \in AllTerms :
        LET Marks(w) ==
              /\ last'.op = "write" /\ last'.rc = SQLITE_OK
              /\ Len(w) = Len(written[t]) + 1
              /\ w[Len(w)].col < 0
        IN  Marks(written'[t]) =>
              /\ Payload(EntryOf(tab'[1], t))
                   = RowidWorkOnly(t, written'[t][Len(written'[t])].rowid)
              /\ (written[t] = <<>>) =>
                   sqlite3Fts5HashQuery(tab'[1], t).out.doclist
                     = PutVarint(written'[t][1].rowid) \o <<128, 128, 128, 0>>
    ]_vars

\* a deletion marker has just opened a second document after a document with a
\* position in column 2
C20_Witness ==
  /\ last.op = "write" /\ last.rc = SQLITE_OK
  /\ \E t \in LiveTerms :
       LET Ends(w) ==
             /\ Len(w) >= 2
             /\ w[Len(w)].col < 0
             /\ w[Len(w) - 1].rowid # w[Len(w)].rowid
             /\ w[Len(w) - 1].col = 2
       IN  Ends(written[t])

(***************************************************************************)
(* C21.  scan_init over a cursor in flight (SpecGrow).                     *)
(***************************************************************************)
\* the table after n times scan_entry, scan_next from the cursor's place
RECURSIVE Advance(_, _)
Advance(h, n) ==
  IF n = 0 THEN h
  ELSE Advance(sqlite3Fts5HashScanNext(sqlite3Fts5HashScanEntry(h).h, NULL), n - 1)

\* C21: wherever the cursor stands, as the calls so far left it or after a
\* scan_init with or without a prefix followed by any number of scan_next (up to the
\* end of the list and beyond), a scan_init(P2) whose allocation succeeds starts
\* a walk that visits the live terms that start with P2, each once, in
\* ascending order, the smallest first
C21_ScanInitReplaces ==
  \A P2 \in Prefixes :
    LET Fresh(h) ==
          WalkTerms(sqlite3Fts5HashScanInit(h, P2, FALSE), Cardinality(DOMAIN H.mem) + 1)
            = SortedTerms({ t \in LiveTerms : StartsWith(t, P2) })
    IN  /\ CursorLive(H) => Fresh(H)
        /\ \A P1 \in ScanPrefixes, n \in 0..(Cardinality(DOMAIN H.mem) + 1) :
             Fresh(Advance(sqlite3Fts5HashScanInit(H, P1, FALSE), n))

\* the cursor stands on the last entry of its list, the entry of 0xCE, while a
\* term that starts with "a" is live
C21_Witness ==
  /\ last.op = "scan_next"
  /\ H.pScan \in DOMAIN H.mem
  /\ H.mem[H.pScan].zKey = <<206>>
  /\ GrowTerm \in LiveTerms

(***************************************************************************)
(* C22.  The rowid transition of a write to an existing term (SpecDoc).    *)
(***************************************************************************)
\* the bytes i+1 .. i+n of b
Bytes(b, i, n) == SubSeq(b, i + 1, i + n)

\* the table after the writes ws (records of term, rowid, col, pos) into h,
\* every call succeeding
RECURSIVE WriteAll(_, _)
WriteAll(h, ws) ==
  IF ws = <<>> \/ h.nSlot = 0 THEN h
  ELSE WriteAll(sqlite3Fts5HashWrite(h, Head(ws).rowid, Head(ws).col, Head(ws).pos,
                                     Head(ws).term,
                                     [ fail |-> "none", mv |-> FALSE, reuse |-> FALSE ]).h,
                Tail(ws))

W4(t, r, c, p) == [ term |-> t, rowid |-> r, col |-> c, pos |-> p ]

\* the term of the example writes (the doclist does not depend on the key)
Cat == <<97>>

\* the writes (t,1,0,0), (t,1,0,4), (t,3,0,2)
CatWrites == << W4(Cat, 1, 0, 0), W4(Cat, 1, 0, 4), W4(Cat, 3, 0, 2) >>

DogWrites == << W4(Cat, 7, 0, 1), W4(Cat, 7, 2, 5) >>

\* C23: a successful write with a column >= 0 appends, after the rowid work,
\* the byte 0x01 and the varint of the column if the column differs from iCol
\* (iPos being reset to 0), and nothing for an unchanged column (column 0 at
\* the start of a document included); then the varint of position - iPos + 2;
\* iCol and iPos become the column and the position written.  The writes
\* (t,7,0,1), (t,7,2,5) give the position list 3, 0x01, 2, 7
C23_PositionEncoding ==
  [][ /\ \A t \in AllTerms :
           LET Positions(w) ==
                 /\ last'.op = "write" /\ last'.rc = SQLITE_OK
                 /\ Len(w) = Len(written[t]) + 1
                 /\ w[Len(w)].col >= 0
               \* opens: the write starts a document; at: where the bytes of the
               \* position work start; c0, p0: iCol and iPos before that work
               Then(f, x, opens, at, c0, p0) ==
                 /\ Bytes(f.buf, at, Len(f.buf) - at)
                      = IF x.col # c0
                          THEN <<1>> \o PutVarint(x.col) \o PutVarint(x.pos + 2)
                          ELSE PutVarint(x.pos - p0 + 2)
                 /\ f.iCol = x.col
                 /\ f.iPos = x.pos
                 /\ f.nData = SizeofEntry + Len(t) + 1 + Len(f.buf)
               Case(f, x, opens) ==
                 IF opens
                   THEN Then(f, x, opens, f.iSzPoslist - (SizeofEntry + Len(t) + 1) + 4, 0, 0)
                   ELSE Then(f, x, opens, Len(EntryOf(tab[1], t).buf),
                             EntryOf(tab[1], t).iCol, EntryOf(tab[1], t).iPos)
           IN  Positions(written'[t]) =>
                 Case(EntryOf(tab'[1], t), written'[t][Len(written'[t])],
                      IF written[t] = <<>> THEN TRUE
                      ELSE written[t][Len(written[t])].rowid
                             # written'[t][Len(written'[t])].rowid)
      \* the example does not depend on the state: the first step suffices
      /\ (last.op = "new") =>
           QueryBytes(WriteAll(HashNew(SlotBits), DogWrites), Cat)
             = <<7, 128, 128, 128, 4, 3, 1, 2, 7>>
    ]_vars

\* a write has just added a position in column 2 to a document that held a
\* position in column 0, and an earlier write added position 130 after
\* position 0 in one column
C23_Witness ==
  /\ last.op = "write" /\ last.rc = SQLITE_OK
  /\ \E t \in LiveTerms :
       LET Ends(w) ==
             /\ Len(w) >= 3
             /\ w[Len(w)].rowid = w[Len(w) - 1].rowid
             /\ w[Len(w)].col = 2 /\ w[Len(w) - 1].col = 0
             /\ w[Len(w) - 1].pos = 130 /\ w[Len(w) - 2].pos = 0
             /\ w[Len(w) - 2].col = 0 /\ w[Len(w) - 2].rowid = w[Len(w)].rowid
       IN  Ends(written[t])

(***************************************************************************)
(* C24.  The size slots of an entry (SpecDoc).                             *)
(***************************************************************************)
\* where the size slots of the document blocks lie in a doclist that starts
\* at offset at, rowids counted from iRowid: one offset per block
RECURSIVE SlotOffsets(_, _, _)
SlotOffsets(blocks, at, iRowid) ==
  IF blocks = <<>> THEN <<>>
  ELSE LET b == Head(blocks)
           s == at + Len(PutVarint(b.rowid - iRowid))
       IN  <<s>> \o SlotOffsets(Tail(blocks), s + 4 + Len(PoslistBytes(b)), b.rowid)

\* the size slot of entry e holds nData - iSzPoslist - 4
SlotFinal(e) ==
  Bytes(e.buf, e.iSzPoslist - Hdr(e.zKey), 4) = Put4ByteVarint(e.nData - e.iSzPoslist - 4)

TailOps == 3

\* rowid 1; position 0 in column 0 (1 byte), five column changes with a 3-byte
\* column and a 5-byte position (9 bytes each), four 1-byte positions: 50
\* bytes after the 56 bytes of the new entry, 106 of 128
TailPrefill ==
  [ k \in 1..10 |->
      [ term  |-> GrowTerm,
        rowid |-> 1,
        col   |-> IF k = 1 THEN 0 ELSE IF k <= 6 THEN 16383 + k ELSE 16389,
        pos   |-> IF k = 1 THEN 0 ELSE IF k <= 6 THEN 268435456 ELSE 268435450 + k ] ]

TailRowids == {1, WideBase + 2}

TailColumns == {16389, 268435456}

TailPoses == {268435461, 536870912}

InitTail ==
  /\ tab = [ i \in {1} |-> WriteAll(HashNew(SlotBits), TailPrefill) ]
  /\ written = [ t \in Terms \cup DocTerms |->
                   IF t = GrowTerm
                     THEN [ k \in 1..Len(TailPrefill) |->
                              Triple(TailPrefill[k].rowid, TailPrefill[k].col,
                                     TailPrefill[k].pos) ]
                     ELSE <<>> ]
  /\ dropped = 0
  /\ budget = TailOps
  /\ last = Did("write", SQLITE_OK, "none")

\* no write has run past the end of an allocation
WithinAlloc == \A a \in DOMAIN H.mem : H.mem[a].nData <= H.mem[a].nAlloc

\* the calls of a caller that does not drain; what the program does once a
\* write has run past the end of an allocation is not defined and not followed
NextTail ==
  \/ /\ WithinAlloc
     /\ \E t \in {GrowTerm, <<97>>}, r \in TailRowids, c \in TailColumns, p \in TailPoses :
          \E env \in WriteEnvs(t, r) : Write(t, r, c, p, env)
  \/ WithinAlloc /\ \E t \in {GrowTerm, <<97>>} : Query(t)
  \/ WithinAlloc /\ \E pTerm \in ScanPrefixes, oom \in OomChoices : ScanInit(pTerm, oom)
  \/ WithinAlloc /\ \E g \in GarbagePointers : ScanNext(g)
  \/ WithinAlloc /\ ScanEntry
  \/ WithinAlloc /\ Clear

SpecTail == InitTail /\ [][NextTail]_vars

(***************************************************************************)
(* C25.  The room a write needs (SpecTail).                                *)
(***************************************************************************)
\* nData of the entry of t in table h, the header and key counted for a term
\* that has no entry
DataEnd(h, t) ==
  IF \E a \in DOMAIN h.mem : h.mem[a].zKey = t
    THEN EntryOf(h, t).nData
    ELSE SizeofEntry + Len(t) + 1

\* C25 as stated: a successful write appends at most 22 bytes to the entry of
\* its term, and nData <= nAlloc holds for every entry in every state
C25_CapacitySafe ==
  [][ /\ (last'.op = "write" /\ last'.rc = SQLITE_OK) =>
           \A t \in AllTerms :
             (written'[t] # written[t]) =>
               DataEnd(tab'[1], t) - DataEnd(tab[1], t) <= TailReserve
      /\ \A a \in DOMAIN tab'[1].mem : tab'[1].mem[a].nData <= tab'[1].mem[a].nAlloc
    ]_vars

(***************************************************************************)
(* C26.  When the number of slots changes (SpecGrow).                      *)
(***************************************************************************)
\* the step is a successful write that has created the entry of a term
CreatesEntry ==
  /\ last'.op = "write" /\ last'.rc = SQLITE_OK
  /\ \E t \in AllTerms : written[t] = <<>> /\ written'[t] # <<>>

\* the step is a write for a term without an entry that has failed in the
\* allocation of the entry, after the check of the load
FailsToCreate == last'.op = "write" /\ last'.site = "entry"

\* nSlot is the initial number of slots times a power of two
SlotCountShape(n) == \E k \in 0..(MaxOps + GrowOps + Len(GrowPrefill)) : n = Pow2(SlotBits + k)

\* C26 as stated: nSlot is the initial number times a power of two; it changes
\* only in a write that creates an entry, exactly when nEntry * 2 >= nSlot held
\* before, and then it doubles; no other call changes it
C26_SlotsChangeOnCreate ==
  [][ /\ SlotCountShape(tab[1].nSlot) /\ SlotCountShape(tab'[1].nSlot)
      /\ (tab'[1].nSlot # tab[1].nSlot) <=>
           (CreatesEntry /\ tab[1].nEntry * 2 >= tab[1].nSlot)
      /\ (tab'[1].nSlot # tab[1].nSlot) => tab'[1].nSlot = 2 * tab[1].nSlot
    ]_vars

\* C26 amended: nSlot is the initial number times a power of two; it changes
\* only in a write for a term that has no entry, exactly when nEntry * 2 >=
\* nSlot held at the call and the allocation of the new slot array succeeded,
\* and then it doubles, whether the allocation of the entry that follows
\* succeeds (the entry is created) or fails (the write returns SQLITE_NOMEM and
\* nSlot stays doubled); a write to an existing term, point_query, the scan
\* calls, iterate and clear never change it, and it never shrinks
C26_SlotsChangeOnResize ==
  [][ /\ SlotCountShape(tab[1].nSlot) /\ SlotCountShape(tab'[1].nSlot)
      /\ (tab'[1].nSlot # tab[1].nSlot) <=>
           ((CreatesEntry \/ FailsToCreate) /\ tab[1].nEntry * 2 >= tab[1].nSlot)
      /\ (tab'[1].nSlot # tab[1].nSlot) => tab'[1].nSlot = 2 * tab[1].nSlot
      /\ (last'.op = "write" /\ last'.site = "resize") =>
           (tab'[1] = tab[1] /\ tab[1].nEntry * 2 >= tab[1].nSlot)
    ]_vars

\* a write has failed in the allocation of its entry and has left the slot
\* array doubled
C26_Witness ==
  /\ last.op = "write" /\ last.site = "entry"
  /\ H.nSlot = 2 * Grown(Len(GrowPrefill)).nSlot
  /\ Cardinality(DOMAIN H.mem) = 1

(***************************************************************************)
(* C27.  One entry per key (SpecGrow).                                     *)
(***************************************************************************)
\* the addresses of the live entries of h whose key is k
Holders(h, k) == { a \in DOMAIN h.mem : h.mem[a].zKey = k }

\* no two live entries of h have the same key
UniqueKeys(h) == \A a, b \in DOMAIN h.mem : h.mem[a].zKey = h.mem[b].zKey => a = b

\* C27: no two live entries have the same key; a successful write for a term
\* that has an entry leaves nEntry, the number of entries, their keys and every
\* other entry as they are and its own entry no shorter; a term is matched by
\* length and content, so a write of "a" while only "ab" has an entry creates
\* the entry of "a" and leaves the entry of "ab" as it is
C27_KeyUniqueness ==
  [][ /\ UniqueKeys(tab[1]) /\ UniqueKeys(tab'[1])
      /\ \A t \in AllTerms :
           LET Wrote == /\ last'.op = "write" /\ last'.rc = SQLITE_OK
                        /\ Len(written'[t]) = Len(written[t]) + 1
               Keys(h) == { h.mem[a].zKey : a \in DOMAIN h.mem }
               Others(h) == { h.mem[a].buf : a \in DOMAIN h.mem \ Holders(h, t) }
               Same == /\ tab'[1].nEntry = tab[1].nEntry
                       /\ Cardinality(DOMAIN tab'[1].mem) = Cardinality(DOMAIN tab[1].mem)
                       /\ Keys(tab'[1]) = Keys(tab[1])
                       /\ Others(tab'[1]) = Others(tab[1])
                       /\ Cardinality(Holders(tab'[1], t)) = 1
                       /\ EntryOf(tab'[1], t).nData >= EntryOf(tab[1], t).nData
               New ==  /\ Holders(tab[1], t) = {}
                       /\ Cardinality(Holders(tab'[1], t)) = 1
                       /\ Keys(tab'[1]) = Keys(tab[1]) \cup {t}
                       /\ Others(tab'[1]) = Others(tab[1])
                       /\ Cardinality(DOMAIN tab'[1].mem) = Cardinality(DOMAIN tab[1].mem) + 1
           IN  Wrote => IF written[t] # <<>> THEN Same ELSE New
    ]_vars

\* "a" and "ab" have an entry each in the same bucket chain, and the last call
\* was a write to "a", which already had its entry
C27_Witness ==
  /\ last.op = "write" /\ last.rc = SQLITE_OK
  /\ Len(written[<<97>>]) >= 2 /\ written[<<97, 98>>] # <<>>
  /\ Cardinality(DOMAIN H.mem) = 2
  /\ \E i \in DOMAIN H.aSlot : Len(Chain(H, i)) = 2

(***************************************************************************)
(* C28.  An entry that moves when it grows (SpecGrow).                     *)
(***************************************************************************)
\* the sequence c with every p replaced by q
Renamed(c, p, q) == [ j \in 1..Len(c) |-> IF c[j] = p THEN q ELSE c[j] ]

\* C28: when a successful write doubles the allocation of its entry and the
\* entry moves from address p to address q, every bucket chain is afterwards
\* the chain it was with p replaced by q, nothing in the slot array or in a
\* pHashNext field refers to p, the entries linked after it are the same, and
\* the entry holds the key and exactly the payload, length and cursors that
\* the same write leaves when the block grows in place
C28_GrowthRelinks ==
  [][ \A t \in AllTerms : \A p \in DOMAIN tab[1].mem : \A q \in DOMAIN tab'[1].mem :
        LET Moves == /\ last'.op = "write" /\ last'.rc = SQLITE_OK
                     /\ Len(written'[t]) = Len(written[t]) + 1
                     /\ Holders(tab[1], t) = {p} /\ Holders(tab'[1], t) = {q}
                     /\ p # q
            InPlace(x) ==
              EntryOf(sqlite3Fts5HashWrite(tab[1], x.rowid, x.col, x.pos, t,
                        [ fail |-> "none", mv |-> FALSE, reuse |-> FALSE ]).h, t)
            Then(g, f) ==
              /\ f.nAlloc = 2 * tab[1].mem[p].nAlloc
              /\ p \notin DOMAIN tab'[1].mem
              /\ \A i \in DOMAIN tab[1].aSlot :
                   Chain(tab'[1], i) = Renamed(Chain(tab[1], i), p, q)
              /\ \A i \in DOMAIN tab'[1].aSlot : tab'[1].aSlot[i] # p
              /\ \A a \in DOMAIN tab'[1].mem : tab'[1].mem[a].pHashNext # p
              /\ f.pHashNext = tab[1].mem[p].pHashNext
              /\ f.zKey = tab[1].mem[p].zKey
              /\ Payload(f) = Payload(g)
              /\ f.nAlloc = g.nAlloc
              /\ \A a \in DOMAIN tab[1].mem \ {p} :
                   a \in DOMAIN tab'[1].mem /\ Payload(tab'[1].mem[a]) = Payload(tab[1].mem[a])
        IN  Moves => Then(InPlace(written'[t][Len(written'[t])]), tab'[1].mem[q])
    ]_vars

\* the entry of GrowTerm has grown and moved to another address while it was
\* the second entry of its bucket chain
C28_Witness ==
  /\ last.op = "write" /\ last.rc = SQLITE_OK
  /\ \E q \in DOMAIN H.mem :
       /\ H.mem[q].zKey = GrowTerm
       /\ Holders(Grown(Len(GrowPrefill)), GrowTerm) # {q}
       /\ H.mem[q].nAlloc = 2 * EntryOf(Grown(Len(GrowPrefill)), GrowTerm).nAlloc
       /\ \E i \in DOMAIN H.aSlot : Len(Chain(H, i)) = 2 /\ Chain(H, i)[2] = q

(***************************************************************************)
(* C29.  Reads between the writes change nothing a later read returns      *)
(* (SpecDoc).                                                              *)
(***************************************************************************)
\* the successful writes made so far, term by term (terms: a sequence of terms)
RECURSIVE WritesOf(_)
WritesOf(terms) ==
  IF terms = <<>> THEN <<>>
  ELSE [ k \in 1..Len(written[Head(terms)]) |->
           W4(Head(terms), written[Head(terms)][k].rowid,
              written[Head(terms)][k].col, written[Head(terms)][k].pos) ]
       \o WritesOf(Tail(terms))

\* a new accumulator that has received the writes made so far and no other call
WritesAlone == WriteAll(HashNew(SlotBits), WritesOf(<< <<97>>, <<97, 98>>, <<206>> >>))

\* the 4 bytes of the current size slot of entry e
SizeSlot(e) == Bytes(e.buf, e.iSzPoslist - Hdr(e.zKey), 4)

\* C29: as long as nothing has been dropped by clear or iterate, whatever
\* point_query, scan_init, scan_next and scan_entry calls have been made between
\* the writes, a point_query of every term returns the bytes, a drain hands the
\* sink the calls and the byte counter has the value that the writes alone
\* give in a new accumulator; in particular a size slot patched by an earlier
\* read is patched again with the size the document has now
C29_ReadsAreTransparent ==
  (dropped = 0) =>
    LET Same(w) ==
          /\ \A t \in AllTerms : sqlite3Fts5HashQuery(H, t).out = sqlite3Fts5HashQuery(w, t).out
          /\ Drain(H, 0).calls = Drain(w, 0).calls
          /\ H.pnByte = w.pnByte
    IN  Same(WritesAlone)

\* the size slot of the open document of an entry holds the size an earlier
\* read has patched in, and positions have been appended to the document since
C29_Witness ==
  /\ last.op = "write" /\ last.rc = SQLITE_OK /\ dropped = 0
  /\ \E a \in DOMAIN H.mem :
       \E k \in 1..(H.mem[a].nData - H.mem[a].iSzPoslist - 5) :
         SizeSlot(H.mem[a]) = Put4ByteVarint(k)

(***************************************************************************)
(* SpecSort: an accumulator that holds an entry for each term of           *)
(* SortPrefill before the calls of Next, so that a sort absorbs up to six  *)
(* entries.                                                                *)
(***************************************************************************)
SortOps == 3

\* the accumulator after one write (rowid 1, column 0, position 0) for each
\* term of SortPrefill
SortTable ==
  WriteAll(HashNew(SlotBits), [ k \in 1..Len(SortPrefill) |-> W4(SortPrefill[k], 1, 0, 0) ])

InitSort ==
  /\ tab = [ i \in {1} |-> SortTable ]
  /\ written = [ t \in Terms \cup DocTerms \cup SortTerms |->
                   IF t \in SortTerms THEN << Triple(1, 0, 0) >> ELSE <<>> ]
  /\ dropped = 0
  /\ budget = SortOps
  /\ last = Did("write", SQLITE_OK, "none")

SpecSort == InitSort /\ [][Next]_vars

(***************************************************************************)
(* C30.  The merge slots of fts5HashEntrySort (SpecSort).                  *)
(***************************************************************************)
\* bit i of m
RECURSIVE Bit(_, _)
Bit(m, i) == IF i = 0 THEN m % 2 ELSE Bit(m \div 2, i - 1)

\* the number of places at which address a occurs in the merge slots ap
RECURSIVE PlacesIn(_, _, _)
PlacesIn(ap, a, i) ==
  IF i = NMergeSlot THEN 0
  ELSE Cardinality({ j \in 1..Len(ap[i]) : ap[i][j] = a }) + PlacesIn(ap, a, i + 1)

\* the keys of the list of addresses l
KeysOf(mem, l) == [ j \in 1..Len(l) |-> mem[l[j]].zKey ]

\* C30: whatever the table holds and whatever prefix the sort is given, after
\* each entry of the bucket walk has been visited every merge slot i is empty or
\* holds a list of exactly 2^i entries in ascending key order, slot i is
\* occupied exactly when bit i of the number of matching entries absorbed so
\* far is set, every absorbed entry is at exactly one place of one slot and no
\* other entry is in a slot; the fold of the slots is one list in ascending key
\* order that holds every matching entry exactly once
C30_MergeSlots ==
  \A pTerm \in Prefixes :
    LET mem   == H.mem
        order == SlotOrder(H, 0)
        Empty == [ i \in 0..(NMergeSlot - 1) |-> <<>> ]
        Matching(seen) == { a \in Range(seen) : PrefixMatch(mem[a], pTerm) }
        SlotsOk(ap, M) ==
          /\ \A i \in 0..(NMergeSlot - 1) :
               /\ ap[i] = <<>> \/ (Len(ap[i]) = Pow2(i) /\ Ascending(KeysOf(mem, ap[i])))
               /\ (ap[i] # <<>>) <=> (Bit(Cardinality(M), i) = 1)
          /\ \A a \in DOMAIN mem : PlacesIn(ap, a, 0) = (IF a \in M THEN 1 ELSE 0)
        FoldOk(pList, M) ==
          /\ Len(pList) = Cardinality(M)
          /\ Range(pList) = M
          /\ Ascending(KeysOf(mem, pList))
    IN  /\ \A n \in 0..Len(order) :
             SlotsOk(SortBuild(mem, Empty, SubSeq(order, 1, n), pTerm),
                     Matching(SubSeq(order, 1, n)))
        /\ FoldOk(SortFold(mem, SortBuild(mem, Empty, order, pTerm), 0, <<>>),
                  Matching(order))
        /\ fts5HashEntrySort(H, pTerm, FALSE).list
             = SortFold(mem, SortBuild(mem, Empty, order, pTerm), 0, <<>>)

\* scan_init has just sorted five entries, four of which start with "a"
C30_Witness ==
  /\ last.op = "scan_init" /\ last.site = "none"
  /\ Cardinality(DOMAIN H.mem) = 5
  /\ H.pScan # NULL
  /\ Cardinality({ a \in DOMAIN H.mem : PrefixMatch(H.mem[a], <<97>>) }) = 4

(***************************************************************************)
(* C31.  What a write leaves alone (SpecGrow).                             *)
(***************************************************************************)
\* what an entry holds beside its links: key, capacity, payload, length, cursors
Held(e) == [ zKey |-> e.zKey, nAlloc |-> e.nAlloc, payload |-> Payload(e) ]

\* C31: a successful write for term t leaves the key, payload bytes, length,
\* capacity and cursors of every entry with another key as they were, keeps the
\* key of the entry of t, and only appends to its payload: every byte the entry
\* held before the write is the same afterwards, except, when the rowid of the
\* write differs from the entry's, the 4 bytes of the size slot at iSzPoslist
C31_WriteFrame ==
  [][ \A t \in AllTerms :
        LET Wrote == /\ last'.op = "write" /\ last'.rc = SQLITE_OK
                     /\ Len(written'[t]) = Len(written[t]) + 1
            Others ==
              \A a \in DOMAIN tab[1].mem \ Holders(tab[1], t) :
                /\ Cardinality(Holders(tab'[1], tab[1].mem[a].zKey)) = 1
                /\ Held(EntryOf(tab'[1], tab[1].mem[a].zKey)) = Held(tab[1].mem[a])
            Appended(e, f, x) ==
              LET k == e.iSzPoslist - Hdr(e.zKey)
              IN  /\ f.zKey = e.zKey
                  /\ f.nData >= e.nData
                  /\ Len(f.buf) >= Len(e.buf)
                  /\ f.nData - e.nData = Len(f.buf) - Len(e.buf)
                  /\ \A i \in 1..Len(e.buf) :
                       IF x.rowid # e.iRowid /\ i > k /\ i <= k + 4
                         THEN f.buf[i] = Put4ByteVarint(e.nData - e.iSzPoslist - 4)[i - k]
                         ELSE f.buf[i] = e.buf[i]
        IN  Wrote =>
              /\ Others
              /\ (written[t] # <<>>) =>
                   Appended(EntryOf(tab[1], t), EntryOf(tab'[1], t),
                            written'[t][Len(written'[t])])
    ]_vars

\* a write has opened the document of rowid 3 in the entry of GrowTerm, which
\* held rowid 1, while another term has an entry
C31_Witness ==
  /\ last.op = "write" /\ last.rc = SQLITE_OK
  /\ Len(written[GrowTerm]) = Len(GrowPrefill) + 1
  /\ written[GrowTerm][Len(written[GrowTerm])].rowid = 3
  /\ Cardinality(DOMAIN H.mem) >= 2

(***************************************************************************)
(* C32.  iterate whose merge slots cannot be allocated (SpecGrow).         *)
(***************************************************************************)
\* C32: when the allocation of the merge slots fails, iterate returns
\* SQLITE_NOMEM, the sink receives no call, no entry is freed, and nEntry, the
\* bucket chains, the entries and the result of point_query of every term are
\* what they were before the call
C32_IterateNoMem ==
  [][ (last'.op = "iterate" /\ last'.site = "mergeslots") =>
        /\ last'.rc = SQLITE_NOMEM
        /\ \A failAt \in IterFailAts :
             /\ sqlite3Fts5HashIterate(tab[1], TRUE, failAt).calls = <<>>
             /\ sqlite3Fts5HashIterate(tab[1], TRUE, failAt).rc = SQLITE_NOMEM
             /\ sqlite3Fts5HashIterate(tab[1], TRUE, failAt).h = tab'[1]
        /\ DOMAIN tab'[1].mem = DOMAIN tab[1].mem
        /\ tab'[1].nEntry = tab[1].nEntry
        /\ \A i \in DOMAIN tab[1].aSlot : Chain(tab'[1], i) = Chain(tab[1], i)
        /\ \A t \in AllTerms :
             sqlite3Fts5HashQuery(tab'[1], t).out = sqlite3Fts5HashQuery(tab[1], t).out
        /\ tab'[1] = tab[1]
    ]_vars

\* iterate has just failed to allocate its merge slots on a table of two
\* counted entries
C32_Witness ==
  /\ last.op = "iterate" /\ last.rc = SQLITE_NOMEM /\ last.site = "mergeslots"
  /\ Cardinality(DOMAIN H.mem) = 2
  /\ H.nEntry = 2

(***************************************************************************)
(* C33.  The loops of scan_init and iterate end (SpecGrow).                *)
(***************************************************************************)
\* following next from address a reaches the null pointer within n steps, through
\* live entries only
RECURSIVE EndsWithin(_, _, _)
EndsWithin(next, a, n) ==
  IF a = NULL THEN TRUE
  ELSE IF n = 0 \/ a \notin DOMAIN next THEN FALSE
  ELSE EndsWithin(next, next[a], n - 1)

\* while( p1->zKey[i]==p2->zKey[i] ) i++ stops at an index inside both keys,
\* their terminators included
LoopStops(e1, e2) ==
  \E i \in 0..(IF Len(e1.zKey) < Len(e2.zKey) THEN Len(e1.zKey) ELSE Len(e2.zKey)) :
    KeyByte(e1, i) # KeyByte(e2, i)

\* the loops that scan_init and iterate run on table h end
Terminates(h) ==
  LET n == Cardinality(DOMAIN h.mem)
      HashNext == [ a \in DOMAIN h.mem |-> h.mem[a].pHashNext ]
      ScanNextOf(m) == [ a \in DOMAIN m |-> m[a].pScanNext ]
      ListEnds(s) == /\ s.rc = SQLITE_OK
                     /\ EndsWithin(ScanNextOf(s.h.mem), s.pSorted, n)
  IN  /\ \A i \in DOMAIN h.aSlot : EndsWithin(HashNext, h.aSlot[i], n)
      /\ \A a, b \in DOMAIN h.mem : a # b => LoopStops(h.mem[a], h.mem[b])
      /\ \A pTerm \in Prefixes : ListEnds(fts5HashEntrySort(h, pTerm, FALSE))
      /\ \A failAt \in IterFailAts :
           Len(sqlite3Fts5HashIterate(h, FALSE, failAt).calls) <= SumNData(h.mem, DOMAIN h.mem)

\* C33: in every table reachable through the public operations every bucket
\* chain ends, any two entries have keys that differ at an index inside both
\* nul-terminated keys, so that the byte loop of the merge stops, and the list
\* the sort returns for any prefix reaches its end within as many links as there
\* are entries, so that scan_init and iterate end
C33_Termination == [][ Terminates(tab[1]) /\ Terminates(tab'[1]) ]_vars

\* scan_init has just sorted three entries, among them "a" and "ab", which
\* differ only at the terminator of "a"
C33_Witness ==
  /\ last.op = "scan_init" /\ last.site = "none"
  /\ Cardinality(DOMAIN H.mem) = 3
  /\ H.pScan \in DOMAIN H.mem
  /\ H.mem[H.pScan].zKey = <<97>>
  /\ H.mem[H.pScan].pScanNext \in DOMAIN H.mem

(***************************************************************************)
(* C34.  nEntry against the bucket chains (SpecGrow).                      *)
(***************************************************************************)
\* C34 as stated: after every public operation nEntry equals the number of
\* entries linked in the bucket chains
C34_CounterMatchesChains == H.nEntry = Len(SlotOrder(H, 0))

(***************************************************************************)
(* C35.  What the scan cursor refers to (SpecGrow).                        *)
(***************************************************************************)
\* C35 as stated: in every reachable state the scan cursor is at EOF or refers
\* to a live entry, and every pScanNext link reachable from it refers to a live
\* entry
C35_CursorValid ==
  EndsWithin([ a \in DOMAIN H.mem |-> H.mem[a].pScanNext ], H.pScan,
             Cardinality(DOMAIN H.mem))

(***************************************************************************)
(* C36.  What a write adds to *pnByte (SpecGrow).                          *)
(***************************************************************************)
\* the sum over the terms of S of the doclist size point_query reports in h
\* plus the entry header, the key and its terminator
RECURSIVE SumReported(_, _)
SumReported(h, S) ==
  IF S = {} THEN 0
  ELSE LET t == CHOOSE t \in S : TRUE
       IN  sqlite3Fts5HashQuery(h, t).out.nDoclist + SizeofEntry + Len(t) + 1
           + SumReported(h, S \ {t})

\* C36: a successful write that creates the entry of its term adds to *pnByte
\* the nData of the entry after the write: the entry header, the key, its
\* terminator and the doclist bytes written; a successful write to an existing
\* entry adds the number of bytes it appends, which is never negative; so that,
\* as long as nothing has been dropped, *pnByte is the sum of nData over the
\* entries, which is the sum of the doclist sizes point_query reports plus
\* header, key and terminator of every entry
C36_WriteAddsToCounter ==
  [][ \A t \in AllTerms :
        LET Wrote == /\ last'.op = "write" /\ last'.rc = SQLITE_OK
                     /\ Len(written'[t]) = Len(written[t]) + 1
            Added == tab'[1].pnByte - tab[1].pnByte
            Created(f) ==
              /\ Added = f.nData
              /\ Added = SizeofEntry + Len(t) + 1 + Len(f.buf)
            Extended(e, f) ==
              /\ Added = f.nData - e.nData
              /\ Added = Len(f.buf) - Len(e.buf)
              /\ Added >= 0
            Sums(h) ==
              /\ h.pnByte = LiveNData(h)
              /\ h.pnByte = SumReported(h, { h.mem[a].zKey : a \in DOMAIN h.mem })
        IN  Wrote =>
              /\ IF written[t] = <<>>
                   THEN Created(EntryOf(tab'[1], t))
                   ELSE Extended(EntryOf(tab[1], t), EntryOf(tab'[1], t))
              /\ (dropped' = 0) => Sums(tab'[1])
    ]_vars

\* a write has opened the document of rowid 3 in the entry of GrowTerm beside a
\* second entry, nothing dropped
C36_Witness ==
  /\ last.op = "write" /\ last.rc = SQLITE_OK /\ dropped = 0
  /\ written[GrowTerm][Len(written[GrowTerm])].rowid = 3
  /\ Cardinality(DOMAIN H.mem) = 2
  /\ H.pnByte = LiveNData(H)

(***************************************************************************)
(* C37.  The bytes of an on_doc call (SpecBig).                            *)
(***************************************************************************)
\* values below 2^28 on both sides of every length boundary of a varint
VarintSamples ==
  (0..300) \cup (16250..16500) \cup (2097100..2097200) \cup (268435400..268435455)

\* the last n bytes of b
Trailing(b, n) == SubSeq(b, Len(b) - n + 1, Len(b))

\* the number of bytes of the generic varint of v < 2^28
NaturalLen(v) ==
  IF v < 128 THEN 1 ELSE IF v < 16384 THEN 2 ELSE IF v < 2097152 THEN 3 ELSE 4

\* the last n bytes of the 4-byte varint of v, n its natural length, are a
\* generic varint: high bit on all but the last byte, decoding to v in n bytes
SlotTailIsVarint(v) ==
  LET Ok(t) ==
        /\ Len(t) = NaturalLen(v)
        /\ \A i \in 1..(Len(t) - 1) : t[i] >= 128
        /\ t[Len(t)] < 128
        /\ GetVarint(t, 1) = [ val |-> v, n |-> NaturalLen(v) ]
  IN  Ok(Trailing(Put4ByteVarint(v), Get4ByteVarint(Put4ByteVarint(v)).nVarint))

\* C37: the bytes of every on_doc call of iterate are the last n bytes of the
\* 4-byte size slot of the document, n (1 to 4) the natural length of the size
\* of its position list, followed by the bytes of the position list, and the
\* length passed is that size plus n; for every size v below 2^28 those n
\* bytes are a well-formed generic varint that decodes to v
C37_OnDocBytes ==
  LET Framed(docs, pls) ==
        /\ Len(docs) = Len(pls)
        /\ \A i \in 1..Len(docs) :
             /\ docs[i].data
                  = Trailing(Put4ByteVarint(Len(pls[i])), NaturalLen(Len(pls[i]))) \o pls[i]
             /\ docs[i].n = Len(pls[i]) + NaturalLen(Len(pls[i]))
             /\ GetVarint(docs[i].data, 1)
                  = [ val |-> Len(pls[i]), n |-> NaturalLen(Len(pls[i])) ]
  IN  /\ Framed(OnDocs(Drain(H, 0).calls), PoslistsOf(SortedTerms(LiveTerms)))
      /\ (last.op = "iterate") => \A v \in VarintSamples : SlotTailIsVarint(v)

\* iterate, the first call after the pre-written ones, has just drained the
\* entry of GrowTerm, whose position list takes more than 127 bytes
C37_Witness ==
  /\ last.op = "iterate" /\ last.rc = SQLITE_OK
  /\ DOMAIN H.mem = {}
  /\ budget = BigOps - 1
  /\ dropped = BigTable(Len(BigPrefill)).pnByte

(***************************************************************************)
(* C38.  The tail space of a new entry (SpecGrow).                         *)
(***************************************************************************)
\* the longest token looked at below
MaxTokenLen == 40

\* a token of n bytes
TokenOf(n) == [ i \in 1..n |-> 97 ]

\* rowids whose varints take 1, 2, 3, 5 and 8 bytes
TailSampleRowids == { 0, 1, 127, 128, 16384, 268435456, WideBase + 2 }

\* the bytes between nData and nAlloc of entry e
TailSpace(e) == e.nAlloc - e.nData

\* C38: the entry a write creates is allocated max(128, header + key length + 1
\* + 64) bytes and, once its rowid varint and its size slot are written, has at
\* least 51 bytes of tail space (also with a rowid varint of 9 bytes, for every
\* key length); the creating write therefore passes the 22-byte check without
\* a reallocation, succeeding even when a reallocation would fail, and a write
\* that fails in the reallocation was made to an entry that existed before
C38_NewEntryHasRoom ==
  [][ /\ \A t \in AllTerms :
           LET Creates == /\ last'.op = "write" /\ last'.rc = SQLITE_OK
                          /\ written[t] = <<>> /\ written'[t] # <<>>
               NoRealloc(x, f) ==
                 /\ f.nAlloc = Max(128, SizeofEntry + Len(t) + 1 + 64)
                 /\ TailSpace(NewEntry(t, x.rowid, NULL)) >= 51
                 /\ TailSpace(f) >= 51 - (1 + 3 + 5)
                 /\ sqlite3Fts5HashWrite(tab[1], x.rowid, x.col, x.pos, t,
                      [ fail |-> "realloc", mv |-> FALSE, reuse |-> FALSE ]).rc = SQLITE_OK
               AnyKey ==
                 \A n \in 0..MaxTokenLen :
                   /\ NewEntryAlloc(TokenOf(n)) - (Hdr(TokenOf(n)) + 9 + 4) >= 51
                   /\ \A r \in TailSampleRowids :
                        /\ TailSpace(NewEntry(TokenOf(n), r, NULL)) >= 51
                        /\ ~(TailSpace(NewEntry(TokenOf(n), r, NULL)) < (9 + 4 + 1 + 3 + 5))
           IN  Creates => (NoRealloc(written'[t][1], EntryOf(tab'[1], t)) /\ AnyKey)
      /\ (last'.op = "write" /\ last'.site = "realloc") =>
           /\ tab'[1] = tab[1]
           /\ \E a \in DOMAIN tab[1].mem : TailSpace(tab[1].mem[a]) < TailReserve
    ]_vars

\* a write has just created the entry of "a" beside the entry of GrowTerm, which
\* has less than 22 bytes of tail space
C38_Witness ==
  /\ last.op = "write" /\ last.rc = SQLITE_OK
  /\ Len(written[<<97>>]) = 1
  /\ Cardinality(DOMAIN H.mem) = 2
  /\ TailSpace(EntryOf(H, <<97>>)) >= 51 - (1 + 3 + 5)
  /\ TailSpace(EntryOf(H, GrowTerm)) < TailReserve

(***************************************************************************)
(* SpecVarint: fts5Put4ByteVarint and fts5Get4ByteVarint on their own.     *)
(* The variables stand for the operands of the two functions: tab[1] is    *)
(* the buffer a[0..3], written is iVal, dropped is the value               *)
(* fts5Get4ByteVarint returns and budget is *pnVarint.                     *)
(***************************************************************************)
InitVarint ==
  /\ tab = [ i \in {1} |-> <<0, 0, 0, 0>> ]
  /\ written \in VarintSamples
  /\ dropped = 0
  /\ budget = 0
  /\ last = Did("new", "void", "none")

\* fts5Put4ByteVarint(a, iVal)
Put4 ==
  /\ last.op = "new"
  /\ tab' = [ i \in {1} |-> Put4ByteVarint(written) ]
  /\ last' = Did("put4", "void", "none")
  /\ UNCHANGED <<written, dropped, budget>>

\* iRet = fts5Get4ByteVarint(a, &nVarint) on the bytes the call above wrote
Get4 ==
  /\ last.op = "put4"
  /\ dropped' = Get4ByteVarint(tab[1]).val
  /\ budget' = Get4ByteVarint(tab[1]).nVarint
  /\ last' = Did("get4", "void", "none")
  /\ UNCHANGED <<tab, written>>

NextVarint ==
  \/ Put4
  \/ Get4

SpecVarint == InitVarint /\ [][NextVarint]_vars

(***************************************************************************)
(* C39.  The 4-byte varint round trip (SpecVarint).                        *)
(***************************************************************************)
\* C39: for a value v with 0 <= v < 2^28 the 4-byte varint is the bytes
\* 0x80|(v>>21), 0x80|(v>>14), 0x80|(v>>7), v&0x7F, the first three with the
\* high bit set and the last without; decoding these bytes returns v, and the
\* natural length returned is 1 for v < 2^7, 2 for v < 2^14, 3 for v < 2^21 and
\* 4 otherwise
C39_FourByteRoundTrip ==
  LET v == written
      a == tab[1]
      Low7(x) == x % 128
  IN  /\ (last.op \in { "put4", "get4" }) =>
           /\ Len(a) = 4
           /\ a[1] = 128 + Low7(v \div 2097152) /\ v \div 2097152 < 128
           /\ a[2] = 128 + Low7(v \div 16384)
           /\ a[3] = 128 + Low7(v \div 128)
           /\ a[4] = Low7(v)
           /\ a[1] >= 128 /\ a[2] >= 128 /\ a[3] >= 128 /\ a[4] < 128
      /\ (last.op = "get4") =>
           /\ dropped = v
           /\ budget = (IF v < 128 THEN 1
                        ELSE IF v < 16384 THEN 2
                        ELSE IF v < 2097152 THEN 3 ELSE 4)

\* the largest value, 2^28 - 1, has been encoded and decoded
C39_Witness ==
  /\ last.op = "get4"
  /\ written = 268435455
  /\ tab[1] = <<255, 255, 255, 127>>
  /\ budget = 4

====
